---- MODULE Spec2Model ----
(***************************************************************************)
(* Browser resource pool (browser_pool.py), its client                     *)
(* AsyncScraper.get_models_with_pool and the request serializer            *)
(* AsyncScraper.run_async (server.py).                                     *)
(*                                                                         *)
(* Pool callers are coroutines of one event loop: they interleave only at  *)
(* await points.  Every statement of BrowserPool that touches the handle   *)
(* table runs inside `async with self.lock`, so a lock-protected section   *)
(* is one step, except where it suspends with the lock still held.         *)
(* Serializer callers are threads contending for a threading.Lock.         *)
(*                                                                         *)
(* The fetch layer: the manual extractors (fetch_manuals_curl.py,          *)
(* fetch_manuals_sync.py, fetch_manuals_tab.py), the choice between the    *)
(* direct and the rendered fetch (fetch_manuals_curl.py, server_cached.py, *)
(* optimized_manual_fetcher.py) and the model extractors                   *)
(* (fetch_models_curl.py, complete_cache.py).  Text is a sequence of       *)
(* one-character strings wherever the code searches or rewrites it.        *)
(***************************************************************************)
EXTENDS Integers, FiniteSets, Sequences, TLC

\* ------------------------------------------------------------------ bounds
TickSeconds == 31      \* seconds per clock tick: one tick carries a handle past the TTL
MaxTime     == 31      \* the clock stops here
MaxCleanups == 2       \* cleanup() calls in one run
MaxFailures == 1       \* browsers that die or break in one run
MaxRequests == 2       \* run_async calls per thread
MaxPieces == 2         \* pieces of a manual file name
MaxLinks == 3          \* manual links of a page with repeated links
MaxCalls == 2          \* extractor calls on one page
MaxFetches == 2        \* requests for manuals
MaxMatches == 3        \* regular-expression matches read in one extractor call
MaxItems == 2          \* items of an API answer
MaxCap == 2            \* largest max_models passed to fetch_models_via_curl
MaxModelCalls == 1     \* model extractor calls
MaxClock == 7          \* seconds the get_models clock runs
PdfChunks == 2         \* chunks curl writes for one manual
MaxCacheHours == 1     \* largest cache_ttl_hours of a PartsTownManualFetcher
MaxCacheTicks == 3     \* half hours the fetcher clock runs
MaxCacheCalls == 3     \* get_manuals calls on the fetcher
MaxWaits == 3
\* server_final.py 40 / server_new.py 42
CACHE_DURATION == 300
\* one day, the period of timedelta.seconds
DaySeconds == 86400
\* seconds between two requests
Waits == {100, 300, DaySeconds}
\* manufacturer codes requested
Ids == {"hobart", "vulcan"}

\* ------------------------------------------------------- program constants
max_browsers == 2      \* browser_pool = BrowserPool(max_browsers=2)
TTL          == 30     \* time.time() - last_used > 30
NoBrowser    == 0      \* browser_id = None

Callers == {"c1", "c2", "c3"}     \* coroutines calling get_models_with_pool
Threads == {"t1", "t2", "t3"}     \* threads calling run_async
Clients == {"r1", "r2", "r3"}     \* requests to /api/manufacturers/M/models
Downloads == {"d1", "d2"}         \* download_pdf_via_curl calls for one manual_url

VARIABLES
    \* BrowserPool
    browsers,      \* self.browsers: id -> [in_use, last_used, conn]
    lock,          \* self.lock (asyncio.Lock): TRUE when held
    playwright,    \* self.playwright is not None
    next_id,       \* the next fresh browser_id (uuid4)
    now,           \* time.time()
    cleanups,      \* cleanup() calls completed
    failures,      \* browsers that died or broke so far
    \* get_models_with_pool, one per caller
    pc,            \* position of the coroutine
    browser_id,    \* local browser_id while the call runs (NoBrowser = None)
    outcome,       \* how the body of the running call ended
    last_outcome,  \* how the call that returned last ended
    close_raised,  \* page.close() raised inside the last release_browser
    last_release,  \* what the last release_browser call found: none, marked, missing
    propagated,    \* an exception left get_models_with_pool
    \* AsyncScraper.run_async
    ser_lock,         \* self.lock (threading.Lock): TRUE when held
    active_requests,  \* self.active_requests (keys)
    tpc,              \* position of each thread
    running,          \* operations inside loop.run_until_complete(coro)
    tresult,          \* what the last run_async call returned
    delayed,          \* the last call took the 2.0 s delay branch
    calls,            \* run_async calls completed per thread
    overlapped,       \* another request was marked active when the call began
    op_how,           \* how the operation of the current/last call ended
    op_runs,          \* times the current/last call ran its operation
    \* manual extractors called on one page
    ex_doc,        \* the manual anchors of the page, in document order
    ex_calls,      \* extractor calls made on the page
    ex_who,        \* the extractor of the last call
    ex_out,        \* the records the last call returned
    ex_seen,       \* the seen set the last fetch_manuals_via_curl call ended with
    ex_prev_who,   \* the extractor of the call before
    ex_prev_out,   \* the records the call before returned
    \* one request for the manuals of a model
    f_pc,          \* idle, start, direct, rendered, reported
    f_entry,       \* the entry point that serves the request
    f_railway,     \* PORT differs from '8888'
    f_known,       \* manufacturer_uri in self.manufacturer_prefixes
    f_direct,      \* how the direct attempt ended: none, failed, empty, records
    f_signals,     \* the warnings the downloaded page triggered
    f_browser,     \* a browser was launched for the request
    f_data,        \* the records handed to the caller
    f_raised,      \* an exception left fetch_manuals_via_curl
    f_requests,    \* requests made so far
    \* one call of a model extractor
    md_pc,         \* idle, patterns, api, returned
    md_fn,         \* the function called
    md_max,        \* max_models of the call
    md_models,     \* models
    md_src,        \* the strategy each record of models came from
    md_seen,       \* seen_codes / seen
    md_pattern,    \* the pattern whose matches are being read (1..3)
    md_matches,    \* matches read in this call
    md_api,        \* API paths tried in this call
    md_out,        \* the list the call returned
    md_how,        \* how the download of the call ended
    md_raised,     \* an exception left the call
    md_calls,      \* calls made so far
    \* server.get_models for one manufacturer M
    g_lock,          \* request_cache_lock: "free" or the request holding it
    g_active,        \* M in active_model_requests
    g_cache,         \* request_cache[models_M]: <<>> or <<[time, response]>>
    g_scraper_cache, \* models_M in scraper_cache['models']
    g_now,           \* time.time()
    g_pc,            \* position of each request
    g_wake,          \* when the request's time.sleep(2) ends
    g_overlap,       \* another request for M was in flight when this one entered
    g_fetched,       \* the request issued its own scraper fetch
    g_outcome,       \* what the request's models came to
    g_resp,          \* the response the request returned
    g_fetches,       \* scraper fetches issued for M
    g_after,         \* the call arrived when scraper_cache['models'] held M
    \* download_pdf_via_curl for one manual_url
    d_exists,      \* os.path.exists(temp_file)
    d_file,        \* the chunks in temp_file
    d_pc,          \* position of each call
    d_fd,          \* what the call's curl writes: none, file, orphan (removed file)
    d_off,         \* chunks the call's curl has written
    d_kind,        \* what the server sends the call: pdf, html
    d_how,         \* how the call's curl ended
    d_content,     \* pdf_content
    d_result,      \* what the call returned
    \* PartsTownManualFetcher
    pt_made,       \* the fetcher has been constructed
    pt_ttl,        \* self.cache_ttl
    pt_cache,      \* self.cache: cache_key -> [data, timestamp]
    pt_now,        \* time.time()
    pt_key,        \* cache_key of the last get_manuals call
    pt_hit,        \* the last call returned from the cache
    pt_probed,     \* the last call probed candidate URLs
    pt_scraped,    \* the last call ran the scraping fallback
    pt_out,        \* the list the last call returned
    pt_calls,      \* get_manuals calls made
    \* server_final / server_new scraper_cache
    sf_now,        \* datetime.now(), in seconds
    sf_list,       \* scraper_cache['manufacturers'] as the set of codes listed
    sf_list_time,  \* scraper_cache['manufacturers_timestamp']: <<>> or <<t>>
    sf_models,     \* scraper_cache['models']: id -> <<>> or <<cached_time>>
    sf_served,     \* entries the last request served from the cache, with their ages
    sf_status,     \* status of the last response
    sf_waits       \* clock steps taken

pool_vars   == <<browsers, lock, playwright, next_id, now, cleanups, failures>>
caller_vars == <<pc, browser_id, outcome, last_outcome, close_raised, last_release,
                 propagated>>
ser_vars    == <<ser_lock, active_requests, tpc, running, tresult, delayed, calls,
                 overlapped, op_how, op_runs>>
ext_vars    == <<ex_doc, ex_calls, ex_who, ex_out, ex_seen, ex_prev_who, ex_prev_out>>
fet_vars    == <<f_pc, f_entry, f_railway, f_known, f_direct, f_signals, f_browser,
                 f_data, f_raised, f_requests>>
mod_vars    == <<md_pc, md_fn, md_max, md_models, md_src, md_seen, md_pattern, md_matches,
                 md_api, md_out, md_how, md_raised, md_calls>>
fetch_vars  == <<ext_vars, fet_vars, mod_vars>>
gm_vars     == <<g_lock, g_active, g_cache, g_scraper_cache, g_now, g_pc, g_wake, g_overlap,
                 g_fetched, g_outcome, g_resp, g_fetches, g_after>>
dl_vars     == <<d_exists, d_file, d_pc, d_fd, d_off, d_kind, d_how, d_content, d_result>>
pt_vars     == <<pt_made, pt_ttl, pt_cache, pt_now, pt_key, pt_hit, pt_probed, pt_scraped,
                 pt_out, pt_calls>>
sf_vars     == <<sf_now, sf_list, sf_list_time, sf_models, sf_served, sf_status, sf_waits>>
srv_vars    == <<gm_vars, dl_vars, pt_vars, sf_vars>>
base_vars   == <<pool_vars, caller_vars, ser_vars, fetch_vars>>
vars        == <<base_vars, srv_vars>>

\* ---------------------------------------------------------------- helpers
Min(S) == CHOOSE x \in S : \A y \in S : x <= y

core_init ==
    /\ browsers = <<>>
    /\ lock = FALSE
    /\ playwright = FALSE
    /\ next_id = 1
    /\ now = 0
    /\ cleanups = 0
    /\ failures = 0
    /\ pc = [c \in Callers |-> "start"]
    /\ browser_id = [c \in Callers |-> NoBrowser]
    /\ outcome = [c \in Callers |-> "none"]
    /\ last_outcome = "none"
    /\ close_raised = FALSE
    /\ last_release = "none"
    /\ propagated = [c \in Callers |-> FALSE]
    /\ ser_lock = FALSE
    /\ active_requests = {}
    /\ tpc = [t \in Threads |-> "idle"]
    /\ running = 0
    /\ tresult = [t \in Threads |-> "none"]
    /\ delayed = [t \in Threads |-> FALSE]
    /\ calls = [t \in Threads |-> 0]
    /\ overlapped = [t \in Threads |-> FALSE]
    /\ op_how = [t \in Threads |-> "none"]
    /\ op_runs = [t \in Threads |-> 0]

\* no extractor has been called; doc is the page
ext_init(doc) ==
    /\ ex_doc = doc
    /\ ex_calls = 0
    /\ ex_who = "none"
    /\ ex_out = <<>>
    /\ ex_seen = {}
    /\ ex_prev_who = "none"
    /\ ex_prev_out = <<>>

\* no request for manuals has been made
fet_init ==
    /\ f_pc = "idle"
    /\ f_entry = "none"
    /\ f_railway = FALSE
    /\ f_known = FALSE
    /\ f_direct = "none"
    /\ f_signals = {}
    /\ f_browser = FALSE
    /\ f_data = <<>>
    /\ f_raised = FALSE
    /\ f_requests = 0

\* no model extractor has been called
mod_init ==
    /\ md_pc = "idle"
    /\ md_fn = "none"
    /\ md_max = 0
    /\ md_models = <<>>
    /\ md_src = <<>>
    /\ md_seen = {}
    /\ md_pattern = 1
    /\ md_matches = 0
    /\ md_api = 0
    /\ md_out = <<>>
    /\ md_how = "none"
    /\ md_raised = FALSE
    /\ md_calls = 0

\* no request for models has arrived
gm_init ==
    /\ g_lock = "free"
    /\ g_active = FALSE
    /\ g_cache = <<>>
    /\ g_scraper_cache = FALSE
    /\ g_now = 0
    /\ g_pc = [t \in Clients |-> "start"]
    /\ g_wake = [t \in Clients |-> 0]
    /\ g_overlap = [t \in Clients |-> FALSE]
    /\ g_fetched = [t \in Clients |-> FALSE]
    /\ g_outcome = [t \in Clients |-> "none"]
    /\ g_resp = [t \in Clients |-> [status |-> "none", success |-> FALSE, by |-> t]]
    /\ g_fetches = 0
    /\ g_after = [t \in Clients |-> FALSE]
    /\ g_after = [t \in Clients |-> FALSE]

\* no download has been requested
dl_init ==
    /\ d_exists = FALSE
    /\ d_file = <<>>
    /\ d_pc = [c \in Downloads |-> "idle"]
    /\ d_fd = [c \in Downloads |-> "none"]
    /\ d_off = [c \in Downloads |-> 0]
    /\ d_kind = [c \in Downloads |-> "none"]
    /\ d_how = [c \in Downloads |-> "none"]
    /\ d_content = [c \in Downloads |-> <<>>]
    /\ d_result = [c \in Downloads |-> [success |-> FALSE, error |-> "none", content |-> <<>>]]

\* no fetcher has been constructed
pt_init ==
    /\ pt_made = FALSE
    /\ pt_ttl = 0
    /\ pt_cache = <<>>
    /\ pt_now = 0
    /\ pt_key = <<>>
    /\ pt_hit = FALSE
    /\ pt_probed = FALSE
    /\ pt_scraped = FALSE
    /\ pt_out = <<>>
    /\ pt_calls = 0

\* server_final.py 34-38: nothing cached
sf_init ==
    /\ sf_now = 0
    /\ sf_list = {}
    /\ sf_list_time = <<>>
    /\ sf_models = [m \in Ids |-> <<>>]
    /\ sf_served = {}
    /\ sf_status = 0
    /\ sf_waits = 0

srv_init == gm_init /\ dl_init /\ pt_init /\ sf_init

Init == core_init /\ ext_init(<<>>) /\ fet_init /\ mod_init /\ srv_init

\* ------------------------------------------------------------ BrowserPool

\* browser_data['browser'].is_connected() is True and does not raise
is_connected(b) == b.conn = "up"

\* time.time() - browser_data['last_used'] > 30
idle_too_long(b, t) == t - b.last_used > TTL

\* mutant: an exception of the liveness check is not caught, the handle stays
closed_ids_skip_broken(tbl, t) ==
    {h \in DOMAIN tbl :
        \/ tbl[h].conn = "down"
        \/ tbl[h].conn = "up" /\ t - tbl[h].last_used > TTL}

\* the ids the pruning loop collects: the check raised (except:), the browser
\* reports disconnected (else:), or it is connected and older than the TTL
\* (closed, whether or not close() raises)
closed_ids(tbl, t) ==
    {h \in DOMAIN tbl :
        IF tbl[h].conn = "broken" THEN TRUE
        ELSE IF is_connected(tbl[h]) THEN idle_too_long(tbl[h], t)
        ELSE TRUE}

\* for browser_id in closed_ids: del self.browsers[browser_id]
prune(tbl, t) == [h \in DOMAIN tbl \ closed_ids(tbl, t) |-> tbl[h]]

\* mutant: a new browser is launched only when no idle handle can be reused
under_limit_unless_idle(tbl) ==
    Cardinality(DOMAIN tbl) < max_browsers /\ \A h \in DOMAIN tbl : tbl[h].in_use

\* mutant: off-by-one capacity test
under_limit_off_by_one(tbl) == Cardinality(DOMAIN tbl) <= max_browsers

\* len(self.browsers) < self.max_browsers
under_limit(tbl) == Cardinality(DOMAIN tbl) < max_browsers

\* mutant: the reuse loop does not look at in_use
idle_ids_any(tbl) == DOMAIN tbl

\* the handles the reuse loop may take: not browser_data.get('in_use', False)
idle_ids(tbl) == {h \in DOMAIN tbl : ~tbl[h].in_use}

\* create branch: launch, new_context, new_page, then insert and return
get_browser_create(c, tbl) ==
    /\ under_limit(tbl)
    /\ lock' = FALSE
    /\ \E launched \in BOOLEAN :
         IF launched
         THEN /\ browsers' = tbl @@ (next_id :>
                     [in_use |-> TRUE, last_used |-> now, conn |-> "up"])
              /\ next_id' = next_id + 1
              /\ browser_id' = [browser_id EXCEPT ![c] = next_id]
              /\ pc' = [pc EXCEPT ![c] = "page"]
              /\ last_outcome' = last_outcome
         ELSE \* the exception leaves get_browser; the caller's except returns []
              /\ browsers' = tbl
              /\ pc' = [pc EXCEPT ![c] = "done"]
              /\ last_outcome' = "get_raised"
              /\ UNCHANGED <<next_id, browser_id>>

\* reuse branch: first idle handle in table order, marked before the new page
get_browser_reuse(c, tbl) ==
    /\ ~under_limit(tbl)
    /\ idle_ids(tbl) # {}
    /\ lock' = FALSE
    /\ LET h == Min(idle_ids(tbl)) IN
       /\ browsers' = [tbl EXCEPT ![h].in_use = TRUE, ![h].last_used = now]
       /\ \E paged \in BOOLEAN :
            IF paged
            THEN /\ browser_id' = [browser_id EXCEPT ![c] = h]
                 /\ pc' = [pc EXCEPT ![c] = "page"]
                 /\ last_outcome' = last_outcome
            ELSE /\ browser_id' = browser_id
                 /\ pc' = [pc EXCEPT ![c] = "done"]
                 /\ last_outcome' = "get_raised"
    /\ UNCHANGED next_id

\* wait branch: await asyncio.sleep(1) inside the `async with self.lock` block
get_browser_wait(c, tbl) ==
    /\ ~under_limit(tbl)
    /\ idle_ids(tbl) = {}
    /\ lock' = TRUE
    /\ browsers' = tbl
    /\ pc' = [pc EXCEPT ![c] = "sleep"]
    /\ UNCHANGED <<next_id, browser_id, last_outcome>>

\* get_browser from `async with self.lock` on, first call or recursive retry
get_browser(c) ==
    /\ pc[c] \in {"start", "retry"}
    /\ ~lock
    /\ playwright' = TRUE
    /\ LET tbl == prune(browsers, now) IN
         \/ get_browser_create(c, tbl)
         \/ get_browser_reuse(c, tbl)
         \/ get_browser_wait(c, tbl)
    /\ UNCHANGED <<now, cleanups, failures, outcome, close_raised, last_release, propagated, ser_vars, fetch_vars, srv_vars>>

\* the sleep ends and the coroutine calls self.get_browser() again, the lock
\* of the enclosing `async with` still held
retry_get_browser(c) ==
    /\ pc[c] = "sleep"
    /\ pc' = [pc EXCEPT ![c] = "retry"]
    /\ UNCHANGED <<pool_vars, browser_id, outcome, last_outcome, close_raised, last_release,
                   propagated, ser_vars, fetch_vars, srv_vars>>

\* mutant: page.close() is not guarded, its exception leaves release_browser
release_browser_close_propagates(tbl, id, t, page_close_raises) ==
    IF id \in DOMAIN tbl /\ ~page_close_raises
    THEN [table  |-> [tbl EXCEPT ![id].in_use = FALSE, ![id].last_used = t],
          raised |-> FALSE]
    ELSE [table |-> tbl, raised |-> id \in DOMAIN tbl]

\* mutant: no `if browser_id in self.browsers`, a missing id raises KeyError
release_browser_unguarded(tbl, id, t, page_close_raises) ==
    IF id \in DOMAIN tbl
    THEN [table  |-> [tbl EXCEPT ![id].in_use = FALSE, ![id].last_used = t],
          raised |-> FALSE]
    ELSE [table |-> tbl, raised |-> TRUE]

\* release_browser on the table: page.close() errors are swallowed
release_browser(tbl, id, t, page_close_raises) ==
    IF id \in DOMAIN tbl
    THEN [table  |-> [tbl EXCEPT ![id].in_use = FALSE, ![id].last_used = t],
          raised |-> FALSE]
    ELSE [table |-> tbl, raised |-> FALSE]

\* mutant: a close() that raises ends cleanup before self.browsers.clear()
cleanup_table_abort_on_error(tbl) ==
    IF \E h \in DOMAIN tbl : tbl[h].conn = "broken" THEN tbl ELSE <<>>

\* cleanup on the table: every close() is tried, then self.browsers.clear()
cleanup_table(tbl) == <<>>

cleanup ==
    /\ ~lock
    /\ cleanups < MaxCleanups
    /\ browsers' = cleanup_table(browsers)
    /\ playwright' = FALSE
    /\ cleanups' = cleanups + 1
    /\ UNCHANGED <<lock, next_id, now, failures, caller_vars, ser_vars, fetch_vars, srv_vars>>

\* ------------------------------------------------- get_models_with_pool

\* page.goto, the settle sleep, page.is_closed(), page.evaluate
operate(c) ==
    /\ pc[c] = "page"
    /\ \E o \in {"models", "page_closed", "raised"} :
         outcome' = [outcome EXCEPT ![c] = o]
    /\ pc' = [pc EXCEPT ![c] = "finally"]
    /\ UNCHANGED <<pool_vars, browser_id, last_outcome, close_raised, last_release, propagated,
                   ser_vars, fetch_vars, srv_vars>>

\* mutant: release in the try block only, not in a finally
must_release_on_success(c) == browser_id[c] # NoBrowser /\ outcome[c] # "raised"

\* finally: if browser_id: await self.browser_pool.release_browser(...)
must_release(c) == browser_id[c] # NoBrowser

finally_release(c) ==
    /\ pc[c] = "finally"
    /\ IF must_release(c)
       THEN /\ ~lock
            /\ \E page_close_raises \in BOOLEAN :
                 LET r == release_browser(browsers, browser_id[c], now,
                                          page_close_raises) IN
                 /\ browsers' = r.table
                 /\ propagated' = [propagated EXCEPT ![c] = r.raised]
                 /\ close_raised' = (page_close_raises /\ browser_id[c] \in DOMAIN browsers)
                 /\ last_release' = IF browser_id[c] \in DOMAIN browsers
                                        THEN "marked" ELSE "missing"
       ELSE UNCHANGED <<browsers, propagated, close_raised, last_release>>
    /\ pc' = [pc EXCEPT ![c] = "done"]
    /\ browser_id' = [browser_id EXCEPT ![c] = NoBrowser]
    /\ outcome' = [outcome EXCEPT ![c] = "none"]
    /\ last_outcome' = outcome[c]
    /\ UNCHANGED <<lock, playwright, next_id, now, cleanups, failures, ser_vars, fetch_vars, srv_vars>>

\* ------------------------------------------------------------ environment

tick ==
    /\ now + TickSeconds <= MaxTime
    /\ now' = now + TickSeconds
    /\ UNCHANGED <<browsers, lock, playwright, next_id, cleanups, failures, caller_vars,
                   ser_vars, fetch_vars, srv_vars>>

\* a browser process dies ("down") or its object starts raising ("broken")
browser_fails(h, how) ==
    /\ h \in DOMAIN browsers
    /\ browsers[h].conn = "up"
    /\ failures < MaxFailures
    /\ failures' = failures + 1
    /\ browsers' = [browsers EXCEPT ![h].conn = how]
    /\ UNCHANGED <<lock, playwright, next_id, now, cleanups, caller_vars, ser_vars, fetch_vars, srv_vars>>

\* ---------------------------------------------- AsyncScraper.run_async

\* mutant: no lock around the body
may_enter_unlocked == TRUE

\* `with self.lock:` lets the thread in
may_enter == ~ser_lock

\* run_async is called: request_id is drawn, the thread reaches `with self.lock`
run_async_call(t) ==
    /\ tpc[t] = "idle"
    /\ calls[t] < MaxRequests
    /\ overlapped' = [overlapped EXCEPT ![t] = active_requests # {}]
    /\ op_how' = [op_how EXCEPT ![t] = "none"]
    /\ op_runs' = [op_runs EXCEPT ![t] = 0]
    /\ tpc' = [tpc EXCEPT ![t] = "waiting"]
    /\ UNCHANGED <<ser_lock, active_requests, running, tresult, delayed, calls,
                   pool_vars, caller_vars, fetch_vars, srv_vars>>

\* lock taken, self.active_requests[request_id] = True, the delay branch
\* (len(self.active_requests) > 1), the new event loop
run_async_enter(t) ==
    /\ tpc[t] = "waiting"
    /\ may_enter
    /\ ser_lock' = TRUE
    /\ active_requests' = active_requests \cup {t}
    /\ delayed' = [delayed EXCEPT ![t] = Cardinality(active_requests \cup {t}) > 1]
    /\ tpc' = [tpc EXCEPT ![t] = "ready"]
    /\ UNCHANGED <<running, tresult, calls, overlapped, op_how, op_runs, pool_vars,
                   caller_vars, fetch_vars, srv_vars>>

\* loop.run_until_complete(coro) begins
run_async_start(t) ==
    /\ tpc[t] = "ready"
    /\ running' = running + 1
    /\ op_runs' = [op_runs EXCEPT ![t] = op_runs[t] + 1]
    /\ tpc' = [tpc EXCEPT ![t] = "running"]
    /\ UNCHANGED <<ser_lock, active_requests, tresult, delayed, calls, overlapped,
                   op_how, pool_vars, caller_vars, fetch_vars, srv_vars>>

\* mutant: only the timeout is turned into None, other exceptions leave run_async
run_async_returns_reraise(how) ==
    IF how = "result" THEN "result" ELSE IF how = "timeout" THEN "None" ELSE "raised"

\* what run_async hands to its caller: `return result`, or `return None` from
\* `except asyncio.TimeoutError` and from `except Exception`
run_async_returns(how) ==
    IF how = "result" THEN "result" ELSE "None"

\* the operation ends: a result, asyncio.TimeoutError or another Exception
run_async_end(t) ==
    /\ tpc[t] = "running"
    /\ running' = running - 1
    /\ \E how \in {"result", "timeout", "exception"} :
         /\ op_how' = [op_how EXCEPT ![t] = how]
         /\ tresult' = [tresult EXCEPT ![t] = run_async_returns(how)]
    /\ tpc' = [tpc EXCEPT ![t] = "finally"]
    /\ UNCHANGED <<ser_lock, active_requests, delayed, calls, overlapped, op_runs,
                   pool_vars, caller_vars, fetch_vars, srv_vars>>

\* finally: del self.active_requests[request_id]
run_async_finally(t) ==
    /\ tpc[t] = "finally"
    /\ active_requests' = active_requests \ {t}
    /\ tpc' = [tpc EXCEPT ![t] = "settle"]
    /\ UNCHANGED <<ser_lock, running, tresult, delayed, calls, overlapped, op_how,
                   op_runs, pool_vars, caller_vars, fetch_vars, srv_vars>>

\* time.sleep(0.5) is over, the `with` block releases the lock, the call returns
run_async_exit(t) ==
    /\ tpc[t] = "settle"
    /\ ser_lock' = FALSE
    /\ calls' = [calls EXCEPT ![t] = calls[t] + 1]
    /\ tpc' = [tpc EXCEPT ![t] = "idle"]
    /\ UNCHANGED <<active_requests, running, tresult, delayed, overlapped, op_how,
                   op_runs, pool_vars, caller_vars, fetch_vars, srv_vars>>

\* ------------------------------------------------------- manual extractors
\* Text is a sequence of one-character strings, so that Python's substring
\* test (`marker in name`) is computed and not assumed.

m_spm == <<"_", "s", "p", "m", ".">>
m_iom == <<"_", "i", "o", "m", ".">>
m_pm  == <<"_", "p", "m", ".">>
m_wd  == <<"_", "w", "d", ".">>
m_sm  == <<"_", "s", "m", ".">>
m_qrg == <<"_", "q", "r", "g", ".">>
m_ts  == <<"_", "t", "s", ".">>
m_om  == <<"_", "o", "m", ".">>
m_im  == <<"_", "i", "m", ".">>
m_unknown == <<"_", "u", "n", "k", "n", "o", "w", "n", ".">>
ext_pdf == <<"p", "d", "f">>

\* '/modelManual/' in front of a file name, kept as one token
Prefix == <<"/modelManual/">>

\* Python: m in s
Contains(s, m) ==
    \E i \in 0..(Len(s) - Len(m)) : \A j \in 1..Len(m) : s[i + j] = m[j]

RECURSIVE Concat(_)
Concat(ps) == IF ps = <<>> THEN <<>> ELSE Head(ps) \o Concat(Tail(ps))

SeqsUpTo(S, n) == UNION {[1..k -> S] : k \in 0..n}

\* file names of manual links: up to MaxPieces pieces followed by 'pdf'
NamePieces == {m_spm, m_iom, m_pm, m_wd, m_sm, m_qrg, m_ts, m_om, m_im, m_unknown, <<"X">>}
Filenames == {Concat(ps) \o ext_pdf : ps \in SeqsUpTo(NamePieces, MaxPieces)}

\* anchor texts after strip()
Texts == {"", "Guide"}

\* an <a href="/modelManual/NAME">TEXT</a> of the page
Anchor(name, text) == [href |-> Prefix \o name, text |-> text]

\* documents: one link with any file name, or up to MaxLinks links (repeats
\* included) over two file names
RepeatedNames == {<<"X">> \o m_spm \o ext_pdf, <<"X", "X", "X">> \o m_unknown \o ext_pdf}
Docs ==
    {<<Anchor(n, t)>> : n \in Filenames, t \in Texts}
        \cup SeqsUpTo({Anchor(n, t) : n \in RepeatedNames, t \in Texts}, MaxLinks)

\* [^"\']+\.pdf of the regular expression: '.pdf' after at least one character
has_pdf(filename) ==
    \E i \in 2..(Len(filename) - 3) :
        /\ filename[i] = "." /\ filename[i + 1] = "p"
        /\ filename[i + 2] = "d" /\ filename[i + 3] = "f"

\* re.findall(r'/modelManual/([^"\']+\.pdf[^"\']*)', html): the file names
\* that follow '/modelManual/', in document order
findall(doc) == SelectSeq([i \in 1..Len(doc) |-> Tail(doc[i].href)], has_pdf)

\* mutant: '_pm.' is tested before '_spm.'
classify_curl_pm_first(filename) ==
    IF Contains(filename, m_pm) THEN [type |-> "pm", title |-> "Parts Manual"]
    ELSE IF Contains(filename, m_spm) THEN [type |-> "spm", title |-> "Service & Parts Manual"]
    ELSE IF Contains(filename, m_iom) THEN [type |-> "iom", title |-> "Installation & Operation Manual"]
    ELSE IF Contains(filename, m_wd) THEN [type |-> "wd", title |-> "Wiring Diagrams"]
    ELSE IF Contains(filename, m_sm) THEN [type |-> "sm", title |-> "Service Manual"]
    ELSE IF Contains(filename, m_qrg) THEN [type |-> "qrg", title |-> "Quick Reference Guide"]
    ELSE IF Contains(filename, m_ts) THEN [type |-> "ts", title |-> "Tech Sheet"]
    ELSE [type |-> "manual", title |-> "Manual"]

\* the if/elif chain of fetch_manuals_via_curl over the matched file name
classify_curl(filename) ==
    IF Contains(filename, m_spm) THEN [type |-> "spm", title |-> "Service & Parts Manual"]
    ELSE IF Contains(filename, m_iom) THEN [type |-> "iom", title |-> "Installation & Operation Manual"]
    ELSE IF Contains(filename, m_pm) THEN [type |-> "pm", title |-> "Parts Manual"]
    ELSE IF Contains(filename, m_wd) THEN [type |-> "wd", title |-> "Wiring Diagrams"]
    ELSE IF Contains(filename, m_sm) THEN [type |-> "sm", title |-> "Service Manual"]
    ELSE IF Contains(filename, m_qrg) THEN [type |-> "qrg", title |-> "Quick Reference Guide"]
    ELSE IF Contains(filename, m_ts) THEN [type |-> "ts", title |-> "Tech Sheet"]
    ELSE [type |-> "manual", title |-> "Manual"]

\* the if/elif chain of fetch_manuals_simple and fetch_manuals_from_tab over
\* the href, with the anchor text as title of an unmatched link
classify_href(href, text) ==
    IF Contains(href, m_spm) THEN [type |-> "spm", title |-> "Service & Parts Manual"]
    ELSE IF Contains(href, m_iom) THEN [type |-> "iom", title |-> "Installation & Operation Manual"]
    ELSE IF Contains(href, m_pm) THEN [type |-> "pm", title |-> "Parts Manual"]
    ELSE IF Contains(href, m_wd) THEN [type |-> "wd", title |-> "Wiring Diagrams"]
    ELSE IF Contains(href, m_sm) THEN [type |-> "sm", title |-> "Service Manual"]
    ELSE [type |-> "unknown", title |-> IF text # "" THEN text ELSE "Manual"]

\* the if/elif chain of fetch_manuals_via_playwright over the href
classify_playwright(href) ==
    IF Contains(href, m_sm) THEN [type |-> "sm", title |-> "Service Manual"]
    ELSE IF Contains(href, m_pm) THEN [type |-> "pm", title |-> "Parts Manual"]
    ELSE IF Contains(href, m_om) THEN [type |-> "om", title |-> "Operation Manual"]
    ELSE IF Contains(href, m_im) THEN [type |-> "im", title |-> "Installation Manual"]
    ELSE IF Contains(href, m_qrg) THEN [type |-> "qrg", title |-> "Quick Reference Guide"]
    ELSE [type |-> "manual", title |-> "Manual"]

\* the dictionary appended to manuals
manual_record(c, link, text) ==
    [type |-> c.type, title |-> c.title, link |-> link, text |-> text]

\* mutant: the set of seen links outlives the call
initial_seen_kept(carried) == carried

\* `seen = set()` at the start of the extraction
initial_seen(carried) == {}

\* the loop of fetch_manuals_via_curl over the matches, from match i on
RECURSIVE curl_loop(_, _, _, _)
curl_loop(matches, i, seen, manuals) ==
    IF i > Len(matches) THEN [manuals |-> manuals, seen |-> seen]
    ELSE IF matches[i] \notin seen
         THEN LET c == classify_curl(matches[i])
              IN  curl_loop(matches, i + 1, seen \cup {matches[i]},
                      Append(manuals, manual_record(c, Prefix \o matches[i], c.title)))
         ELSE curl_loop(matches, i + 1, seen, manuals)

\* the extraction of fetch_manuals_via_curl from downloaded html; carried is
\* whatever an earlier call left behind
curl_extract(doc, carried) == curl_loop(findall(doc), 1, initial_seen(carried), <<>>)

\* the loop of fetch_manuals_simple: every anchor with an href is appended
RECURSIVE simple_loop(_, _, _)
simple_loop(links, i, manuals) ==
    IF i > Len(links) THEN manuals
    ELSE IF links[i].href # <<>>
         THEN LET c == classify_href(links[i].href, links[i].text)
              IN  simple_loop(links, i + 1,
                      Append(manuals, manual_record(c, links[i].href,
                                 IF links[i].text # "" THEN links[i].text ELSE c.title)))
         ELSE simple_loop(links, i + 1, manuals)

fetch_manuals_simple(doc) == simple_loop(doc, 1, <<>>)

\* the loop of fetch_manuals_from_tab over the links of a selector: a link is
\* appended unless a record with the same link is already there
RECURSIVE tab_loop(_, _, _)
tab_loop(links, i, manuals) ==
    IF i > Len(links) THEN manuals
    ELSE IF links[i].href # <<>> /\ Contains(links[i].href, Prefix)
              /\ ~ \E k \in 1..Len(manuals) : manuals[k].link = links[i].href
         THEN LET c == classify_href(links[i].href, links[i].text)
              IN  tab_loop(links, i + 1,
                      Append(manuals, manual_record(c, links[i].href,
                                 IF links[i].text # "" THEN links[i].text ELSE c.title)))
         ELSE tab_loop(links, i + 1, manuals)

\* fetch_manuals_from_tab: the first selector that yields records ends
\* method 1, method 2 runs only when method 1 found nothing; every selector
\* is taken to return the manual anchors of the page in document order
fetch_manuals_from_tab(doc) ==
    LET method1 == tab_loop(doc, 1, <<>>)
    IN  IF method1 # <<>> THEN method1 ELSE tab_loop(doc, 1, <<>>)

\* the loop of fetch_manuals_via_playwright with its local seen set
RECURSIVE playwright_loop(_, _, _, _)
playwright_loop(links, i, seen, manuals) ==
    IF i > Len(links) THEN manuals
    ELSE IF links[i].href # <<>> /\ links[i].href \notin seen
         THEN LET c == classify_playwright(links[i].href)
              IN  playwright_loop(links, i + 1, seen \cup {links[i].href},
                      Append(manuals, manual_record(c, links[i].href, c.title)))
         ELSE playwright_loop(links, i + 1, seen, manuals)

playwright_extract(doc) == playwright_loop(doc, 1, {}, <<>>)

\* one extractor call on the page ex_doc
extractor_call(who, out, seen) ==
    /\ ex_calls < MaxCalls
    /\ ex_calls' = ex_calls + 1
    /\ ex_prev_who' = ex_who
    /\ ex_prev_out' = ex_out
    /\ ex_who' = who
    /\ ex_out' = out
    /\ ex_seen' = seen
    /\ UNCHANGED <<ex_doc, pool_vars, caller_vars, ser_vars, fet_vars, mod_vars, srv_vars>>

call_curl ==
    LET r == curl_extract(ex_doc, ex_seen)
    IN  extractor_call("curl", r.manuals, r.seen)

call_simple == extractor_call("simple", fetch_manuals_simple(ex_doc), ex_seen)

call_tab == extractor_call("tab", fetch_manuals_from_tab(ex_doc), ex_seen)

call_playwright == extractor_call("playwright", playwright_extract(ex_doc), ex_seen)

\* ------------------------------------------------- fetching the manuals
\* Two entry points: get_manuals of server_cached.py, which calls
\* fetch_manuals_via_curl, and PartsTownManualFetcher.get_manuals.

\* the warnings fetch_manuals_via_curl prints about the downloaded page
Signals == {"cloudflare", "notfound", "small"}

\* pages a download can deliver: the warnings they trigger and their links
FetchDocs == SeqsUpTo({Anchor(n, "") : n \in RepeatedNames}, MaxLinks)
Pages == [signals : SUBSET Signals, doc : FetchDocs]

\* self.manual_types
manual_types == <<"spm", "iom", "pm", "wd", "sm">>

\* _fetch_using_patterns: a record for every candidate whose URL exists
RECURSIVE fetch_using_patterns(_, _)
fetch_using_patterns(types, existing) ==
    IF types = <<>> THEN <<>>
    ELSE (IF Head(types) \in existing
             THEN <<[type |-> Head(types), title |-> Head(types),
                     link |-> <<"https://", Head(types)>>, text |-> "View Manual"]>>
             ELSE <<>>)
         \o fetch_using_patterns(Tail(types), existing)

\* a cache miss arrives at one of the entry points
fetch_request(entry, railway, known) ==
    /\ f_pc \in {"idle", "reported"}
    /\ f_requests < MaxFetches
    /\ f_requests' = f_requests + 1
    /\ f_entry' = entry
    /\ f_railway' = railway
    /\ f_known' = known
    /\ f_direct' = "none"
    /\ f_signals' = {}
    /\ f_browser' = FALSE
    /\ f_data' = <<>>
    /\ f_raised' = FALSE
    /\ f_pc' = "start"
    /\ UNCHANGED <<pool_vars, caller_vars, ser_vars, ext_vars, mod_vars, srv_vars>>

\* the first branch of the entry point: `if is_railway` in
\* fetch_manuals_via_curl, `if manufacturer_uri in self.manufacturer_prefixes`
\* in PartsTownManualFetcher.get_manuals
rendered_first(entry, railway, known) ==
    IF entry = "server_cached" THEN railway ELSE ~known

select_strategy ==
    /\ f_pc = "start"
    /\ IF rendered_first(f_entry, f_railway, f_known)
          THEN f_pc' = "rendered" /\ f_browser' = TRUE
          ELSE f_pc' = "direct" /\ f_browser' = f_browser
    /\ UNCHANGED <<f_entry, f_railway, f_known, f_direct, f_signals, f_data, f_raised,
                   f_requests, pool_vars, caller_vars, ser_vars, ext_vars, mod_vars, srv_vars>>

\* mutant: the scraping fallback also runs after a direct attempt with records
falls_back_always(entry, manuals) == entry = "optimized"

\* after the direct attempt: PartsTownManualFetcher.get_manuals returns the
\* records of the patterns `if manuals` and scrapes otherwise;
\* fetch_manuals_via_curl returns whatever the extraction found
falls_back(entry, manuals) == entry = "optimized" /\ manuals = <<>>

\* what the direct attempt leaves behind
after_direct(manuals, tag, signals, raised) ==
    /\ f_direct' = tag
    /\ f_signals' = signals
    /\ f_raised' = raised
    /\ IF falls_back(f_entry, manuals)
          THEN f_pc' = "rendered" /\ f_browser' = TRUE /\ f_data' = f_data
          ELSE f_pc' = "reported" /\ f_browser' = f_browser /\ f_data' = manuals
    /\ UNCHANGED <<f_entry, f_railway, f_known, f_requests,
                   pool_vars, caller_vars, ser_vars, ext_vars, mod_vars, srv_vars>>

\* mutant: only the timeout is caught, other exceptions leave the function
manuals_failure_reraise(how) ==
    [value |-> <<>>, raised |-> how = "exception"]

\* an unsuccessful direct fetch of fetch_manuals_via_curl: the else branch of
\* `if result.returncode == 0 and result.stdout`, `except
\* subprocess.TimeoutExpired` and `except Exception` all `return []`
manuals_failure(how) ==
    [value |-> <<>>, raised |-> FALSE]

\* the curl subprocess of fetch_manuals_via_curl and what get_manuals answers:
\* a timeout, an exception and a failed curl give [], a downloaded page is
\* searched for manual links whatever warnings it triggered
curl_attempt(how, page) ==
    /\ f_pc = "direct"
    /\ f_entry = "server_cached"
    /\ IF how = "ok"
          THEN LET manuals == curl_extract(page.doc, {}).manuals
               IN  after_direct(manuals, IF manuals = <<>> THEN "empty" ELSE "records",
                                page.signals, FALSE)
          ELSE LET r == manuals_failure(how)
               IN  after_direct(r.value, how, {}, r.raised)

\* _fetch_using_patterns probes the candidate URLs with HEAD requests
pattern_attempt(existing) ==
    /\ f_pc = "direct"
    /\ f_entry = "optimized"
    /\ LET manuals == fetch_using_patterns(manual_types, existing)
       IN  after_direct(manuals, IF manuals = <<>> THEN "empty" ELSE "records", {}, FALSE)

\* the dictionary get_manuals of server_cached.py builds for a manual
format_manual(m) ==
    [type |-> m.type, title |-> m.title, url |-> m.link,
     full_url |-> IF m.link # <<>> THEN <<"https://www.partstown.com">> \o m.link ELSE <<>>]

\* what get_manuals of server_cached.py answers after fetch_manuals_via_curl
\* returned manuals or raised: success with the formatted manuals, and
\* success with an empty list both for no manuals and for an exception
get_manuals_response(manuals, raised) ==
    [status |-> "200", success |-> TRUE,
     data |-> IF raised THEN <<>> ELSE [k \in 1..Len(manuals) |-> format_manual(manuals[k])]]

\* the browser fetch: fetch_manuals_via_playwright, or fetch_manuals_for_model
\* for PartsTownManualFetcher; an exception gives []
rendered_fetch(ok, doc) ==
    /\ f_pc = "rendered"
    /\ f_data' = IF ok THEN playwright_extract(doc) ELSE <<>>
    /\ f_pc' = "reported"
    /\ UNCHANGED <<f_entry, f_railway, f_known, f_direct, f_signals, f_browser, f_raised,
                   f_requests, pool_vars, caller_vars, ser_vars, ext_vars, mod_vars, srv_vars>>

\* ------------------------------------------------------ model extractors
\* fetch_models_via_curl (fetch_models_curl.py) and parse_models_from_html
\* (complete_cache.py).  The matches of a regular expression are handed to the
\* loop body one at a time.

s_Parts   == <<"P", "a", "r", "t", "s">>
s_Manuals == <<"M", "a", "n", "u", "a", "l", "s">>
s_Home    == <<"H", "o", "m", "e">>
s_Back    == <<"B", "a", "c", "k">>
s_javascript == <<"j", "a", "v", "a", "s", "c", "r", "i", "p", "t">>

\* the navigation texts both extractors name
chrome_names == {s_Parts, s_Manuals, s_Home, s_Back}

uppercase == <<"A", "B", "C", "D", "E", "F", "G", "H", "I", "J", "K", "L", "M",
               "N", "O", "P", "Q", "R", "S", "T", "U", "V", "W", "X", "Y", "Z">>
lowercase == <<"a", "b", "c", "d", "e", "f", "g", "h", "i", "j", "k", "l", "m",
               "n", "o", "p", "q", "r", "s", "t", "u", "v", "w", "x", "y", "z">>

\* str.lower()
lower(s) ==
    [i \in 1..Len(s) |->
        IF \E u \in 1..Len(uppercase) : uppercase[u] = s[i]
           THEN lowercase[CHOOSE u \in 1..Len(uppercase) : uppercase[u] = s[i]]
           ELSE s[i]]

\* str.strip() for blanks
RECURSIVE strip(_)
strip(s) ==
    IF s = <<>> THEN s
    ELSE IF Head(s) = " " THEN strip(Tail(s))
    ELSE IF s[Len(s)] = " " THEN strip(SubSeq(s, 1, Len(s) - 1))
    ELSE s

\* texts and codes the page or the API can carry
RawNames == {s_Parts, <<" ">> \o s_Back \o <<" ">>, <<" ">>, <<"F", "r", "y", "e", "r">>,
             <<"O", "v", "e", "n">>}
RawCodes == {<<"A", "1">>, <<"A", "1", " ">>, <<"B", "2">>,
             <<"J", "a", "v", "a", "S", "c", "r", "i", "p", "t", ":">>}

\* items of the API answer, as item.get('code', item.get('modelCode', '')) and
\* item.get('name', item.get('modelName', '')) read them: '' when absent
ApiItems == [code : {<<"A", "1">>, <<"B", "2">>, <<>>},
             name : {s_Parts, <<"F", "r", "y", "e", "r">>, <<>>}]

\* the extraction strategies of fetch_models_via_curl in the order it tries
\* them: model_pattern1, model_pattern2, model_pattern3, the API endpoints
strategies == <<"pattern1", "pattern2", "pattern3", "api">>

\* the dictionary appended to models
model_record(code, name) == [code |-> code, name |-> name]

\* an unsuccessful fetch of fetch_models_via_curl: the else branch of
\* `if result.returncode == 0`, `except subprocess.TimeoutExpired` and
\* `except Exception` all `return []`
models_failure(how) ==
    [value |-> <<>>, raised |-> FALSE]

\* a call of fetch_models_via_curl: the page download fails (return []) or the
\* pattern loop starts with empty models and seen_codes
fetch_models_via_curl(max_models, how) ==
    /\ md_pc \in {"idle", "returned"}
    /\ md_calls < MaxModelCalls
    /\ md_calls' = md_calls + 1
    /\ md_fn' = "fetch_models_via_curl"
    /\ md_max' = max_models
    /\ md_models' = <<>>
    /\ md_src' = <<>>
    /\ md_seen' = {}
    /\ md_pattern' = 1
    /\ md_matches' = 0
    /\ md_api' = 0
    /\ md_how' = how
    /\ IF how = "ok"
          THEN md_pc' = "patterns" /\ md_out' = <<>> /\ md_raised' = FALSE
          ELSE /\ md_pc' = "returned"
               /\ md_out' = models_failure(how).value
               /\ md_raised' = models_failure(how).raised
    /\ UNCHANGED <<pool_vars, caller_vars, ser_vars, ext_vars, fet_vars, srv_vars>>

\* a call of parse_models_from_html: one pattern, no cap, no API
parse_models_from_html ==
    /\ md_pc \in {"idle", "returned"}
    /\ md_calls < MaxModelCalls
    /\ md_calls' = md_calls + 1
    /\ md_fn' = "parse_models_from_html"
    /\ md_max' = 0
    /\ md_models' = <<>>
    /\ md_src' = <<>>
    /\ md_seen' = {}
    /\ md_pattern' = 1
    /\ md_matches' = 0
    /\ md_api' = 0
    /\ md_out' = <<>>
    /\ md_how' = "ok"
    /\ md_raised' = FALSE
    /\ md_pc' = "patterns"
    /\ UNCHANGED <<pool_vars, caller_vars, ser_vars, ext_vars, fet_vars, srv_vars>>

\* `continue` of the pattern loop of fetch_models_via_curl
skips_match(code, name, seen) ==
    \/ code \in seen
    \/ name \in chrome_names \cup {<<>>}
    \/ Contains(lower(code), s_javascript)

\* the pattern loop body of fetch_models_via_curl for one match, with the cap
curl_match(raw_code, raw_name) ==
    /\ md_pc = "patterns"
    /\ md_fn = "fetch_models_via_curl"
    /\ md_matches < MaxMatches
    /\ md_matches' = md_matches + 1
    /\ LET model_name == strip(raw_name)
           model_code == strip(raw_code)
       IN  IF skips_match(model_code, model_name, md_seen)
              THEN UNCHANGED <<md_seen, md_models, md_src, md_pc, md_out>>
              ELSE /\ md_seen' = md_seen \cup {model_code}
                   /\ md_models' = Append(md_models, model_record(model_code, model_name))
                   /\ md_src' = Append(md_src, strategies[md_pattern])
                   /\ IF Len(md_models) + 1 >= md_max
                         THEN md_pc' = "returned" /\ md_out' = md_models'
                         ELSE md_pc' = "patterns" /\ md_out' = md_out
    /\ UNCHANGED <<md_fn, md_max, md_pattern, md_api, md_calls, md_how, md_raised,
                   pool_vars, caller_vars, ser_vars, ext_vars, fet_vars, srv_vars>>

\* mutant: the API endpoints are tried whatever the patterns found
api_needed_always(models) == TRUE

\* `if not models:` in front of the API fallback
api_needed(models) == models = <<>>

\* the matches of the current pattern are used up: the next pattern, or after
\* the third one `if not models` (API) / return models
curl_pattern_done ==
    /\ md_pc = "patterns"
    /\ md_fn = "fetch_models_via_curl"
    /\ IF md_pattern < 3
          THEN md_pattern' = md_pattern + 1 /\ UNCHANGED <<md_pc, md_out>>
          ELSE /\ md_pattern' = md_pattern
               /\ IF api_needed(md_models)
                     THEN md_pc' = "api" /\ md_out' = md_out
                     ELSE md_pc' = "returned" /\ md_out' = md_models
    /\ UNCHANGED <<md_fn, md_max, md_models, md_src, md_seen, md_matches, md_api, md_calls, md_how, md_raised,
                   pool_vars, caller_vars, ser_vars, ext_vars, fet_vars, srv_vars>>

\* mutant: the list is not sliced
take_all(items, n) == items

\* data[:max_models]
take(items, n) == SubSeq(items, 1, IF Len(items) < n THEN Len(items) ELSE n)

\* CachePopulator.populate_cache: if len(models) > self.max_models:
\* models = models[:self.max_models]
populate_models(models, max_models) ==
    IF Len(models) > max_models THEN take(models, max_models) ELSE models

\* the records appended for the items of an API answer
api_records(items) == [k \in 1..Len(items) |-> model_record(items[k].code, items[k].name)]

\* one of the first three API paths: skipped ('facets'), curl failed, not
\* JSON, JSON of another shape, or a list / a dict with 'models' whose items
\* are appended; `if models: break`.  A timeout of the API curl and an
\* exception while the answer is read reach the outer except clauses.
api_try(how, items) ==
    /\ md_pc = "api"
    /\ md_api < 3
    /\ md_api' = md_api + 1
    /\ md_models' = IF how = "models" THEN md_models \o api_records(take(items, md_max))
                                      ELSE md_models
    /\ md_src' = md_src \o [k \in 1..(Len(md_models') - Len(md_models)) |-> "api"]
    /\ IF how \in {"timeout", "exception"}
          THEN /\ md_pc' = "returned"
               /\ md_how' = how
               /\ md_out' = models_failure(how).value
               /\ md_raised' = models_failure(how).raised
          ELSE /\ IF md_models' # <<>>
                     THEN md_pc' = "returned" /\ md_out' = md_models'
                     ELSE md_pc' = "api" /\ md_out' = md_out
               /\ UNCHANGED <<md_how, md_raised>>
    /\ UNCHANGED <<md_fn, md_max, md_seen, md_pattern, md_matches, md_calls,
                   pool_vars, caller_vars, ser_vars, ext_vars, fet_vars, srv_vars>>

\* no API path is left: return models
api_done ==
    /\ md_pc = "api"
    /\ md_pc' = "returned"
    /\ md_out' = md_models
    /\ UNCHANGED <<md_fn, md_max, md_models, md_src, md_seen, md_pattern, md_matches,
                   md_api, md_calls, md_how, md_raised, pool_vars, caller_vars, ser_vars, ext_vars, fet_vars, srv_vars>>

\* the loop body of parse_models_from_html for one match: the code is marked
\* seen before the name is looked at
parse_match(model_code, raw_name) ==
    /\ md_pc = "patterns"
    /\ md_fn = "parse_models_from_html"
    /\ md_matches < MaxMatches
    /\ md_matches' = md_matches + 1
    /\ IF model_code \in md_seen
          THEN UNCHANGED <<md_seen, md_models, md_src>>
          ELSE /\ md_seen' = md_seen \cup {model_code}
               /\ LET model_name == strip(raw_name)
                  IN  IF model_name = <<>> \/ model_name \in chrome_names
                         THEN UNCHANGED <<md_models, md_src>>
                         ELSE /\ md_models' = Append(md_models,
                                                     model_record(model_code, model_name))
                              /\ md_src' = Append(md_src, strategies[1])
    /\ UNCHANGED <<md_pc, md_out, md_fn, md_max, md_pattern, md_api, md_calls, md_how, md_raised,
                   pool_vars, caller_vars, ser_vars, ext_vars, fet_vars, srv_vars>>

\* the matches are used up: return models
parse_done ==
    /\ md_pc = "patterns"
    /\ md_fn = "parse_models_from_html"
    /\ md_pc' = "returned"
    /\ md_out' = md_models
    /\ UNCHANGED <<md_fn, md_max, md_models, md_src, md_seen, md_pattern, md_matches,
                   md_api, md_calls, md_how, md_raised, pool_vars, caller_vars, ser_vars, ext_vars, fet_vars, srv_vars>>

\* ------------------------------------------------------ server.get_models
\* Requests for the models of one manufacturer M, served by threads.
\* request_cache and active_model_requests are touched only inside
\* `with request_cache_lock`, so each such block is one step, except the one
\* that sleeps with the lock held.

\* positions of a get_models call between its arrival and its return
in_flight == {"sleeping", "scraper", "fetching", "respond", "failing"}

\* the successful response of a call, built from the models it obtained
models_response(t) == [status |-> "200", success |-> TRUE, by |-> t]

\* an error response
error_response(status, t) == [status |-> status, success |-> FALSE, by |-> t]

\* request_cache holds a response for M younger than age seconds
cached_within(age) == g_cache # <<>> /\ g_now - g_cache[1].time < age

\* a call leaves get_models with response r
get_models_return(t, r) ==
    /\ g_pc' = [g_pc EXCEPT ![t] = "done"]
    /\ g_resp' = [g_resp EXCEPT ![t] = r]

\* the first `with request_cache_lock` block up to the sleep: a response
\* younger than 5 s is returned; if M is marked active the thread sleeps 2 s
\* with the lock held; otherwise M is marked active
get_models_enter(t) ==
    /\ g_pc[t] = "start"
    /\ g_lock = "free"
    /\ g_after' = [g_after EXCEPT ![t] = g_scraper_cache]
    /\ g_overlap' = [g_overlap EXCEPT ![t] = \E u \in Clients \ {t} : g_pc[u] \in in_flight]
    /\ IF cached_within(5)
          THEN /\ get_models_return(t, g_cache[1].response)
               /\ UNCHANGED <<g_lock, g_active, g_wake>>
          ELSE IF g_active
          THEN /\ g_lock' = t
               /\ g_pc' = [g_pc EXCEPT ![t] = "sleeping"]
               /\ g_wake' = [g_wake EXCEPT ![t] = g_now + 2]
               /\ UNCHANGED <<g_active, g_resp>>
          ELSE /\ g_active' = TRUE
               /\ g_pc' = [g_pc EXCEPT ![t] = "scraper"]
               /\ UNCHANGED <<g_lock, g_wake, g_resp>>
    /\ UNCHANGED <<g_cache, g_now, g_scraper_cache, g_fetched, g_outcome, g_fetches,
                   dl_vars, pt_vars, sf_vars, base_vars>>

\* time.sleep(2) is over: a response younger than 10 s is returned, otherwise
\* M is marked active; the lock is released either way
get_models_wake(t) ==
    /\ g_pc[t] = "sleeping"
    /\ g_now >= g_wake[t]
    /\ g_lock' = "free"
    /\ IF cached_within(10)
          THEN get_models_return(t, g_cache[1].response) /\ UNCHANGED g_active
          ELSE /\ g_active' = TRUE
               /\ g_pc' = [g_pc EXCEPT ![t] = "scraper"]
               /\ UNCHANGED g_resp
    /\ UNCHANGED <<g_cache, g_now, g_wake, g_overlap, g_scraper_cache, g_fetched,
                   g_outcome, g_fetches, g_after,
                   dl_vars, pt_vars, sf_vars, base_vars>>

\* after the lock: 503 when the scraper is not ready; the models of
\* scraper_cache when they are fresh; 404 for an unknown manufacturer;
\* otherwise the scraper fetch is issued through run_async
get_models_lookup(t, ready, fresh, known) ==
    /\ g_pc[t] = "scraper"
    /\ IF ~ready
          THEN get_models_return(t, error_response("503", t))
               /\ UNCHANGED <<g_fetched, g_fetches, g_outcome>>
          ELSE IF g_scraper_cache /\ fresh
          THEN /\ g_pc' = [g_pc EXCEPT ![t] = "respond"]
               /\ g_outcome' = [g_outcome EXCEPT ![t] = "cached"]
               /\ UNCHANGED <<g_resp, g_fetched, g_fetches>>
          ELSE IF ~known
          THEN get_models_return(t, error_response("404", t))
               /\ UNCHANGED <<g_fetched, g_fetches, g_outcome>>
          ELSE /\ g_pc' = [g_pc EXCEPT ![t] = "fetching"]
               /\ g_fetched' = [g_fetched EXCEPT ![t] = TRUE]
               /\ g_fetches' = g_fetches + 1
               /\ UNCHANGED <<g_resp, g_outcome>>
    /\ UNCHANGED <<g_lock, g_active, g_cache, g_now, g_wake, g_overlap, g_scraper_cache,
                   g_after,
                   dl_vars, pt_vars, sf_vars, base_vars>>

\* what get_models does with the models the fetch delivered: `if not models`
\* answers 500, otherwise the response is built
after_fetch(how) ==
    IF how = "models" THEN "respond"
    ELSE IF how = "exception" THEN "failing"
    ELSE "error500"

\* the scraper fetch ends: models, an empty list, None from run_async, or an
\* exception
get_models_fetched(t, how) ==
    /\ g_pc[t] = "fetching"
    /\ g_outcome' = [g_outcome EXCEPT ![t] = how]
    /\ IF after_fetch(how) = "error500"
          THEN get_models_return(t, error_response("500", t))
          ELSE g_pc' = [g_pc EXCEPT ![t] = after_fetch(how)] /\ UNCHANGED g_resp
    /\ g_scraper_cache' = (g_scraper_cache \/ how = "models")
    /\ UNCHANGED <<g_lock, g_active, g_cache, g_now, g_wake, g_overlap, g_fetched,
                   g_fetches, g_after,
                   dl_vars, pt_vars, sf_vars, base_vars>>

\* the response is stored in request_cache and M is removed from
\* active_model_requests under the lock; the response is returned
get_models_respond(t) ==
    /\ g_pc[t] = "respond"
    /\ g_lock = "free"
    /\ g_cache' = <<[time |-> g_now, response |-> models_response(t)]>>
    /\ g_active' = FALSE
    /\ get_models_return(t, models_response(t))
    /\ UNCHANGED <<g_lock, g_now, g_wake, g_overlap, g_scraper_cache, g_fetched, g_outcome,
                   g_fetches, g_after,
                   dl_vars, pt_vars, sf_vars, base_vars>>

\* except Exception: M is removed under the lock, 500 is returned
get_models_fail(t) ==
    /\ g_pc[t] = "failing"
    /\ g_lock = "free"
    /\ g_active' = FALSE
    /\ get_models_return(t, error_response("500", t))
    /\ UNCHANGED <<g_lock, g_cache, g_now, g_wake, g_overlap, g_scraper_cache, g_fetched,
                   g_outcome, g_fetches, g_after,
                   dl_vars, pt_vars, sf_vars, base_vars>>

\* a second passes
get_models_tick ==
    /\ g_now < MaxClock
    /\ g_now' = g_now + 1
    /\ UNCHANGED <<g_lock, g_active, g_cache, g_pc, g_wake, g_overlap, g_scraper_cache,
                   g_fetched, g_outcome, g_resp, g_fetches,
                   g_after,
                   dl_vars, pt_vars, sf_vars, base_vars>>

\* ------------------------------------------------- download_pdf_via_curl
\* Calls for one manual_url. temp_file is /tmp/<md5(manual_url)>_download.pdf,
\* the same path for every call with that url. curl -o opens the path
\* (creating or truncating it) and writes the body chunk by chunk through its
\* own descriptor; a removed file stays open for the curl that writes it.

\* chunk i of the body the server sends
chunk(kind, i) == IF i = 1 THEN (IF kind = "pdf" THEN "%PDF" ELSE "<html") ELSE "body"

\* the whole body
body_of(kind) == [i \in 1..PdfChunks |-> chunk(kind, i)]

\* the file after a writer at offset off wrote c
write_at(file, off, c) ==
    IF off < Len(file) THEN [file EXCEPT ![off + 1] = c]
    ELSE [i \in 1..(off + 1) |->
             IF i <= Len(file) THEN file[i] ELSE IF i = off + 1 THEN c ELSE "hole"]

\* {'success': True, 'content': pdf_content}
download_success(content) == [success |-> TRUE, error |-> "", content |-> content]

\* {'success': False, 'error': error}
download_failure(error) == [success |-> FALSE, error |-> error, content |-> <<>>]

\* pdf_content[:4] == b'%PDF'
is_pdf(content) == content # <<>> /\ content[1] = "%PDF"

\* os.remove(temp_file): the path is gone, curls writing the file keep writing
\* a file nobody can open
remove_temp_file ==
    /\ d_exists' = FALSE
    /\ d_file' = <<>>
    /\ d_fd' = [c \in Downloads |-> IF d_fd[c] = "file" THEN "orphan" ELSE d_fd[c]]

\* a call leaves download_pdf_via_curl with result r
download_return(c, r) ==
    /\ d_pc' = [d_pc EXCEPT ![c] = "returned"]
    /\ d_result' = [d_result EXCEPT ![c] = r]

\* download_pdf_via_curl(manual_url): subprocess.run starts curl
download_pdf_via_curl(c, kind) ==
    /\ d_pc[c] = "idle"
    /\ d_pc' = [d_pc EXCEPT ![c] = "curl"]
    /\ d_kind' = [d_kind EXCEPT ![c] = kind]
    /\ UNCHANGED <<d_exists, d_file, d_fd, d_off, d_how, d_content, d_result, gm_vars, pt_vars, sf_vars, base_vars>>

\* curl opens the output path: created if missing, truncated otherwise
curl_open(c) ==
    /\ d_pc[c] = "curl"
    /\ d_fd[c] = "none"
    /\ d_exists' = TRUE
    /\ d_file' = <<>>
    /\ d_fd' = [d_fd EXCEPT ![c] = "file"]
    /\ UNCHANGED <<d_pc, d_off, d_kind, d_how, d_content, d_result, gm_vars, pt_vars, sf_vars, base_vars>>

\* curl writes the next chunk at its offset
curl_write(c) ==
    /\ d_pc[c] = "curl"
    /\ d_fd[c] # "none"
    /\ d_off[c] < PdfChunks
    /\ d_off' = [d_off EXCEPT ![c] = d_off[c] + 1]
    /\ d_file' = IF d_fd[c] = "file"
                    THEN write_at(d_file, d_off[c], chunk(d_kind[c], d_off[c] + 1))
                    ELSE d_file
    /\ UNCHANGED <<d_exists, d_fd, d_pc, d_kind, d_how, d_content, d_result, gm_vars, pt_vars, sf_vars, base_vars>>

\* curl ends: exit code 0 after the whole body was written, a non-zero exit
\* code, or subprocess.TimeoutExpired, whose handler removes temp_file
curl_exit(c, how) ==
    /\ d_pc[c] = "curl"
    /\ how = "ok" => d_fd[c] # "none" /\ d_off[c] = PdfChunks
    /\ d_how' = [d_how EXCEPT ![c] = how]
    /\ IF how = "ok"
          THEN /\ d_pc' = [d_pc EXCEPT ![c] = "exists"]
               /\ d_fd' = [d_fd EXCEPT ![c] = "none"]
               /\ UNCHANGED <<d_exists, d_file, d_result>>
          ELSE IF how = "failed"
          THEN /\ download_return(c, download_failure("Curl failed"))
               /\ d_fd' = [d_fd EXCEPT ![c] = "none"]
               /\ UNCHANGED <<d_exists, d_file>>
          ELSE /\ download_return(c, download_failure("Download timeout"))
               /\ IF d_exists
                     THEN /\ d_exists' = FALSE
                          /\ d_file' = <<>>
                          /\ d_fd' = [x \in Downloads |->
                                        IF x = c THEN "none"
                                        ELSE IF d_fd[x] = "file" THEN "orphan" ELSE d_fd[x]]
                     ELSE /\ d_fd' = [d_fd EXCEPT ![c] = "none"]
                          /\ UNCHANGED <<d_exists, d_file>>
    /\ UNCHANGED <<d_off, d_kind, d_content, gm_vars, pt_vars, sf_vars, base_vars>>

\* if os.path.exists(temp_file)
download_exists(c) ==
    /\ d_pc[c] = "exists"
    /\ IF d_exists
          THEN d_pc' = [d_pc EXCEPT ![c] = "read"] /\ UNCHANGED d_result
          ELSE download_return(c, download_failure("No file downloaded"))
    /\ UNCHANGED <<d_exists, d_file, d_fd, d_off, d_kind, d_how, d_content, gm_vars, pt_vars, sf_vars, base_vars>>

\* with open(temp_file, 'rb') as f: pdf_content = f.read(); a missing file
\* raises into `except Exception`
download_read(c) ==
    /\ d_pc[c] = "read"
    /\ IF d_exists
          THEN /\ d_content' = [d_content EXCEPT ![c] = d_file]
               /\ d_pc' = [d_pc EXCEPT ![c] = "remove"]
               /\ UNCHANGED d_result
          ELSE /\ download_return(c, download_failure("FileNotFoundError"))
               /\ UNCHANGED d_content
    /\ UNCHANGED <<d_exists, d_file, d_fd, d_off, d_kind, d_how, gm_vars, pt_vars, sf_vars, base_vars>>

\* the %PDF test, os.remove(temp_file) and the return; a missing file makes
\* os.remove raise into `except Exception`
download_remove(c) ==
    /\ d_pc[c] = "remove"
    /\ IF d_exists
          THEN /\ remove_temp_file
               /\ download_return(c, IF is_pdf(d_content[c])
                                        THEN download_success(d_content[c])
                                        ELSE download_failure("Downloaded file is not a PDF"))
          ELSE /\ download_return(c, download_failure("FileNotFoundError"))
               /\ UNCHANGED <<d_exists, d_file, d_fd>>
    /\ UNCHANGED <<d_off, d_kind, d_how, d_content, gm_vars, pt_vars, sf_vars, base_vars>>

\* ------------------------------------ PartsTownManualFetcher.get_manuals
\* One fetcher object, called sequentially; self.cache maps cache_key to the
\* recorded list and the time it was recorded.

\* the keys of self.manufacturer_prefixes
manufacturer_prefixes == {"henny-penny", "apw-wyott", "delfield", "frymaster", "true"}

\* cache_key = f"{manufacturer_uri}_{model_code}"
cache_key(manufacturer_uri, model_code) == <<manufacturer_uri, "_", model_code>>

\* self.cache_ttl = cache_ttl_hours * 3600
cache_ttl(cache_ttl_hours) == cache_ttl_hours * 3600

\* _is_cached
is_cached(cache, key, t, ttl) ==
    key \in DOMAIN cache /\ t - cache[key].timestamp < ttl

\* mutant: an empty result is not recorded
cache_result_skip_empty(cache, key, manuals, t) ==
    IF manuals = <<>> THEN cache
    ELSE [k \in DOMAIN cache \cup {key} |->
             IF k = key THEN [data |-> manuals, timestamp |-> t] ELSE cache[k]]

\* _cache_result
cache_result(cache, key, manuals, t) ==
    [k \in DOMAIN cache \cup {key} |->
        IF k = key THEN [data |-> manuals, timestamp |-> t] ELSE cache[k]]

\* PartsTownManualFetcher(cache_ttl_hours)
fetcher_init(cache_ttl_hours) ==
    /\ ~pt_made
    /\ pt_made' = TRUE
    /\ pt_ttl' = cache_ttl(cache_ttl_hours)
    /\ pt_cache' = <<>>
    /\ UNCHANGED <<pt_now, pt_key, pt_hit, pt_probed, pt_scraped, pt_out, pt_calls,
                   gm_vars, dl_vars, sf_vars, base_vars>>

\* get_manuals(manufacturer_uri, model_code): existing are the manual types
\* whose candidate URL answers 200, ok and doc what the scraping subprocess
\* delivers
get_manuals(manufacturer_uri, model_code, existing, ok, doc) ==
    /\ pt_made
    /\ pt_calls < MaxCacheCalls
    /\ pt_calls' = pt_calls + 1
    /\ LET key == cache_key(manufacturer_uri, model_code)
           known == manufacturer_uri \in manufacturer_prefixes
           by_pattern == IF known THEN fetch_using_patterns(manual_types, existing) ELSE <<>>
           scraped == IF ok THEN playwright_extract(doc) ELSE <<>>
       IN  /\ pt_key' = key
           /\ IF is_cached(pt_cache, key, pt_now, pt_ttl)
                 THEN /\ pt_hit' = TRUE
                      /\ pt_probed' = FALSE
                      /\ pt_scraped' = FALSE
                      /\ pt_out' = pt_cache[key].data
                      /\ pt_cache' = pt_cache
                 ELSE IF by_pattern # <<>>
                 THEN /\ pt_hit' = FALSE
                      /\ pt_probed' = TRUE
                      /\ pt_scraped' = FALSE
                      /\ pt_out' = by_pattern
                      /\ pt_cache' = cache_result(pt_cache, key, by_pattern, pt_now)
                 ELSE /\ pt_hit' = FALSE
                      /\ pt_probed' = known
                      /\ pt_scraped' = TRUE
                      /\ pt_out' = scraped
                      /\ pt_cache' = cache_result(pt_cache, key, scraped, pt_now)
    /\ UNCHANGED <<pt_made, pt_ttl, pt_now, gm_vars, dl_vars, sf_vars, base_vars>>

\* half an hour passes
fetcher_tick ==
    /\ pt_now < MaxCacheTicks * 1800
    /\ pt_now' = pt_now + 1800
    /\ UNCHANGED <<pt_made, pt_ttl, pt_cache, pt_key, pt_hit, pt_probed, pt_scraped, pt_out,
                   pt_calls, gm_vars, dl_vars, sf_vars, base_vars>>

\* ------------------------------------------------- server_final scraper_cache
\* timedelta.seconds: the seconds component of the difference, the days dropped
timedelta_seconds(diff) == diff % DaySeconds

\* (datetime.now() - cached_time).seconds < CACHE_DURATION
cache_fresh(cached_time) == timedelta_seconds(sf_now - cached_time) < CACHE_DURATION

\* the cache check of get_manufacturers
manufacturers_cached ==
    /\ sf_list # {}
    /\ sf_list_time # <<>>
    /\ cache_fresh(sf_list_time[1])

\* the cache check of get_models
models_cached(id) ==
    /\ sf_models[id] # <<>>
    /\ cache_fresh(sf_models[id][1])

served(entry, cached_time) == [entry |-> entry, age |-> sf_now - cached_time]

\* GET /api/manufacturers: listing is what the scraper returns on a miss
final_get_manufacturers(listing) ==
    /\ sf_status' = 200
    /\ IF manufacturers_cached
         THEN /\ sf_served' = {served("manufacturers", sf_list_time[1])}
              /\ UNCHANGED <<sf_list, sf_list_time>>
         ELSE /\ sf_list' = listing
              /\ sf_list_time' = <<sf_now>>
              /\ sf_served' = {}
    /\ UNCHANGED <<sf_now, sf_models, sf_waits, gm_vars, dl_vars, pt_vars, base_vars>>

\* GET /api/manufacturers/<id>/models
final_get_models(id, listing) ==
    /\ IF models_cached(id)
         THEN /\ sf_served' = {served("models", sf_models[id][1])}
              /\ sf_status' = 200
              /\ UNCHANGED <<sf_list, sf_list_time, sf_models>>
         ELSE /\ IF manufacturers_cached
                   THEN /\ sf_served' = {served("manufacturers", sf_list_time[1])}
                        /\ UNCHANGED <<sf_list, sf_list_time>>
                   ELSE /\ sf_list' = listing
                        /\ sf_list_time' = <<sf_now>>
                        /\ sf_served' = {}
              /\ IF id \in sf_list'
                   THEN /\ sf_models' = [sf_models EXCEPT ![id] = <<sf_now>>]
                        /\ sf_status' = 200
                   ELSE /\ sf_status' = 404
                        /\ UNCHANGED sf_models
    /\ UNCHANGED <<sf_now, sf_waits, gm_vars, dl_vars, pt_vars, base_vars>>

\* time passes between two requests
final_wait(d) ==
    /\ sf_waits < MaxWaits
    /\ sf_waits' = sf_waits + 1
    /\ sf_now' = sf_now + d
    /\ UNCHANGED <<sf_list, sf_list_time, sf_models, sf_served, sf_status,
                   gm_vars, dl_vars, pt_vars, base_vars>>

FinalNext ==
    \/ \E listing \in SUBSET Ids : final_get_manufacturers(listing)
    \/ \E id \in Ids : \E listing \in SUBSET Ids : final_get_models(id, listing)
    \/ \E d \in Waits : final_wait(d)

\* --------------------------------------------------------- specifications

\* the pool, its callers, shutdown and the environment
Next ==
    \/ \E c \in Callers : get_browser(c)
    \/ \E c \in Callers : retry_get_browser(c)
    \/ \E c \in Callers : operate(c)
    \/ \E c \in Callers : finally_release(c)
    \/ cleanup
    \/ tick
    \/ \E h \in DOMAIN browsers, how \in {"down", "broken"} : browser_fails(h, how)

Spec == Init /\ [][Next]_vars

\* the callers alone, each coroutine scheduled again whenever it can run
CallersNext ==
    \/ \E c \in Callers : get_browser(c)
    \/ \E c \in Callers : retry_get_browser(c)
    \/ \E c \in Callers : operate(c)
    \/ \E c \in Callers : finally_release(c)

FairCallersSpec ==
    /\ Init
    /\ [][CallersNext]_vars
    /\ \A c \in Callers :
         /\ WF_vars(get_browser(c))
         /\ WF_vars(retry_get_browser(c))
         /\ WF_vars(operate(c))
         /\ WF_vars(finally_release(c))

\* the threads of the request serializer
SerializerNext ==
    \/ \E t \in Threads : run_async_call(t)
    \/ \E t \in Threads : run_async_enter(t)
    \/ \E t \in Threads : run_async_start(t)
    \/ \E t \in Threads : run_async_end(t)
    \/ \E t \in Threads : run_async_finally(t)
    \/ \E t \in Threads : run_async_exit(t)

SerializerSpec == Init /\ [][SerializerNext]_vars

\* the manual extractors, called on one page drawn from Docs
ExtractInit == core_init /\ (\E doc \in Docs : ext_init(doc)) /\ fet_init /\ mod_init /\ srv_init

ExtractNext ==
    \/ call_curl
    \/ call_simple
    \/ call_tab
    \/ call_playwright

ExtractSpec == ExtractInit /\ [][ExtractNext]_vars

\* requests for manuals through both entry points
FetchNext ==
    \/ \E railway \in BOOLEAN : fetch_request("server_cached", railway, FALSE)
    \/ \E known \in BOOLEAN : fetch_request("optimized", FALSE, known)
    \/ select_strategy
    \/ \E how \in {"ok", "failed", "empty_output", "timeout", "exception"}, page \in Pages :
          curl_attempt(how, page)
    \/ \E existing \in SUBSET {manual_types[i] : i \in 1..Len(manual_types)} :
          pattern_attempt(existing)
    \/ \E ok \in BOOLEAN, doc \in FetchDocs : rendered_fetch(ok, doc)

FetchSpec == Init /\ [][FetchNext]_vars

\* calls of the model extractors
ModelsNext ==
    \/ \E max_models \in 1..MaxCap, how \in {"ok", "failed", "timeout", "exception"} :
          fetch_models_via_curl(max_models, how)
    \/ parse_models_from_html
    \/ \E code \in RawCodes, name \in RawNames : curl_match(code, name)
    \/ curl_pattern_done
    \/ \E how \in {"facets", "failed", "not_json", "other", "timeout", "exception"} :
          api_try(how, <<>>)
    \/ \E items \in SeqsUpTo(ApiItems, MaxItems) : api_try("models", items)
    \/ api_done
    \/ \E code \in RawCodes, name \in RawNames : parse_match(code, name)
    \/ parse_done

ModelsSpec == Init /\ [][ModelsNext]_vars

\* the curl fetchers one at a time: requests for manuals, or calls of the
\* model extractors (the two share no state, interleaving them adds nothing)
CurlFetchersNext ==
    \/ md_pc = "idle" /\ FetchNext
    \/ f_pc = "idle" /\ ModelsNext

CurlFetchersSpec == Init /\ [][CurlFetchersNext]_vars

\* requests for the models of one manufacturer, served concurrently
GetModelsNext ==
    \/ \E t \in Clients : get_models_enter(t)
    \/ \E t \in Clients : get_models_wake(t)
    \/ \E t \in Clients, ready \in BOOLEAN, fresh \in BOOLEAN, known \in BOOLEAN :
          get_models_lookup(t, ready, fresh, known)
    \/ \E t \in Clients, how \in {"models", "empty", "none", "exception"} :
          get_models_fetched(t, how)
    \/ \E t \in Clients : get_models_respond(t)
    \/ \E t \in Clients : get_models_fail(t)
    \/ get_models_tick

GetModelsSpec == Init /\ [][GetModelsNext]_vars

\* overlapping downloads of one manual
DownloadNext ==
    \/ \E c \in Downloads, kind \in {"pdf", "html"} : download_pdf_via_curl(c, kind)
    \/ \E c \in Downloads : curl_open(c)
    \/ \E c \in Downloads : curl_write(c)
    \/ \E c \in Downloads, how \in {"ok", "failed", "timeout"} : curl_exit(c, how)
    \/ \E c \in Downloads : download_exists(c)
    \/ \E c \in Downloads : download_read(c)
    \/ \E c \in Downloads : download_remove(c)

DownloadSpec == Init /\ [][DownloadNext]_vars

\* one PartsTownManualFetcher, its calls and its clock
FetcherNext ==
    \/ \E cache_ttl_hours \in 0..MaxCacheHours : fetcher_init(cache_ttl_hours)
    \/ \E manufacturer_uri \in {"true", "acme"}, model_code \in {"t-23"},
          existing \in SUBSET {"pm", "wd"}, ok \in BOOLEAN,
          doc \in {d \in FetchDocs : Len(d) <= 1} :
          get_manuals(manufacturer_uri, model_code, existing, ok, doc)
    \/ fetcher_tick

FetcherSpec == Init /\ [][FetcherNext]_vars
FinalSpec == Init /\ [][FinalNext]_vars

\* ----------------------------------------------------------------- claims

\* callers that hold handle h: get_browser returned it, release_browser has
\* not run yet
holders(h) == {c \in Callers : pc[c] \in {"page", "finally"} /\ browser_id[c] = h}

\* caller c takes its get_browser step (from the lock on) in this transition
get_browser_step(c) == pc[c] \in {"start", "retry"} /\ pc'[c] # pc[c]

\* caller c runs its finally block with a handle in this transition
release_step(c) == pc[c] = "finally" /\ pc'[c] = "done" /\ browser_id[c] # NoBrowser

\* C1: at most one operation wrapped by run_async executes at any moment: the
\* counter of operations inside run_until_complete never exceeds 1.
C1_MutualExclusion == running <= 1

C1_Witness ==
    \E t \in Threads :
        /\ tpc[t] = "running"
        /\ running = 1
        /\ \E u \in Threads \ {t} : calls[u] >= 1
        /\ \E u \in Threads \ {t} : tpc[u] = "waiting"

\* C2: the handle table never holds more than max_browsers handles.
C2_PoolCapacity == Cardinality(DOMAIN browsers) <= max_browsers

\* the table is full again after a handle was created, cleaned up and released
C2_Witness ==
    /\ Cardinality(DOMAIN browsers) = max_browsers
    /\ cleanups >= 1
    /\ next_id = 4
    /\ \E c \in Callers : pc[c] = "done"

\* C3: every handle of the table is held by at most one caller, and a held
\* handle is marked in_use (so the reuse loop cannot hand it out again).
C3_ExclusiveHandles ==
    \A h \in DOMAIN browsers :
        /\ Cardinality(holders(h)) <= 1
        /\ holders(h) # {} => browsers[h].in_use

\* three callers were served by two handles: one handle was reused
C3_Witness ==
    /\ next_id = 3 /\ cleanups = 0 /\ failures = 0
    /\ \E c \in Callers, d \in Callers :
         /\ c # d
         /\ pc[c] = "page" /\ pc[d] = "page"
         /\ browser_id[c] # browser_id[d]
         /\ {browser_id[c], browser_id[d]} = DOMAIN browsers
         /\ \A e \in Callers \ {c, d} :
              pc[e] = "done" /\ last_outcome \in {"models", "page_closed", "raised"}

\* C4: whenever a caller is in the wait-and-retry step of get_browser, the
\* pool lock is free.
C4_LockFreeWhileWaiting ==
    \A c \in Callers : pc[c] \in {"sleep", "retry"} => ~lock

\* C5: with max_browsers = 2 and three callers that release what they get,
\* every caller eventually holds a handle, unless a launch or a new page
\* raised in get_browser.
C5_ThirdCallerEventuallyServed ==
    \A c \in Callers : <>(browser_id[c] # NoBrowser \/ last_outcome = "get_raised")

\* C6 as claimed: when get_models_with_pool returns after get_browser gave it
\* a handle, that handle is in the table with in_use = False.
C6_HandleIdleOnReturn ==
    [][\A c \in Callers :
          release_step(c) =>
              /\ browser_id[c] \in DOMAIN browsers'
              /\ ~browsers'[browser_id[c]].in_use]_vars

\* C6 as amended: when get_models_with_pool returns after get_browser gave it
\* a handle, on every path of the body, the handle is marked idle if it is
\* still in the table; if it was pruned or cleaned up meanwhile the table is
\* left as it is.
C6_HandleIdleOrGoneOnReturn ==
    [][\A c \in Callers :
          (pc[c] = "finally" /\ pc'[c] = "done") =>
              /\ browser_id[c] # NoBrowser
              /\ IF browser_id[c] \in DOMAIN browsers
                 THEN /\ browser_id[c] \in DOMAIN browsers'
                      /\ ~browsers'[browser_id[c]].in_use
                 ELSE browsers' = browsers]_vars

\* a call whose body raised has returned and left an idle handle behind
C6_Witness ==
    /\ last_outcome = "raised"
    /\ \E c \in Callers : pc[c] = "done"
    /\ \E h \in DOMAIN browsers : ~browsers[h].in_use /\ holders(h) = {}

\* C7: get_browser removes only handles that are disconnected (or whose
\* check raises) or that are idle (not in_use) and older than the TTL; a
\* connected handle in use is never removed by get_browser.
C7_PruneSparesInUse ==
    [][cleanups' = cleanups =>
          \A h \in DOMAIN browsers \ DOMAIN browsers' :
              \/ browsers[h].conn # "up"
              \/ ~browsers[h].in_use /\ now - browsers[h].last_used > TTL]_vars

\* C8: a handle whose liveness check raises or reports disconnected is removed
\* by the get_browser call that checked it and is not the handle returned;
\* the call itself goes on to the create branch (a new handle, or the
\* launch's own exception).
C8_DeadHandlePruned ==
    [][\A c \in Callers :
          get_browser_step(c) =>
              \A h \in DOMAIN browsers :
                  browsers[h].conn # "up" =>
                      /\ h \notin DOMAIN browsers'
                      /\ browser_id'[c] # h
                      /\ \/ pc'[c] = "page" /\ browser_id'[c] = next_id
                         \/ pc'[c] = "done" /\ last_outcome' = "get_raised"]_vars

\* the first handle died, the call that created the second one pruned it
C8_Witness ==
    /\ failures = 1 /\ cleanups = 0 /\ now = 0 /\ next_id = 3
    /\ DOMAIN browsers = {2}
    /\ \E c \in Callers : pc[c] = "page" /\ browser_id[c] = 2

\* C9: release_browser(id, page) for an id of the table leaves the handle
\* with in_use = False and last_used = now, also when page.close() raises,
\* and no exception leaves the call.
C9_ReleaseMarksIdle ==
    [][\A c \in Callers :
          (release_step(c) /\ browser_id[c] \in DOMAIN browsers) =>
              /\ browser_id[c] \in DOMAIN browsers'
              /\ ~browsers'[browser_id[c]].in_use
              /\ browsers'[browser_id[c]].last_used = now
              /\ ~propagated'[c]]_vars

\* page.close() raised in the last release, after the clock had moved on
C9_Witness ==
    /\ close_raised
    /\ now > 0
    /\ \E c \in Callers : pc[c] = "done"
    /\ \E h \in DOMAIN browsers :
         ~browsers[h].in_use /\ holders(h) = {} /\ browsers[h].last_used = now

run_async_return_step(t) == tpc[t] = "settle" /\ tpc'[t] = "idle"

\* C11: when the operation passed to run_async timed out or raised, the call
\* returns with the serializer lock released and its request removed from
\* active_requests, hands None to the caller instead of raising, and has run
\* the operation exactly once.
C11_FailureReleasesAndReturnsNone ==
    [][\A t \in Threads :
          (run_async_return_step(t) /\ op_how[t] \in {"timeout", "exception"})
              => /\ ~ser_lock'
                 /\ t \notin active_requests'
                 /\ tresult'[t] = "None"
                 /\ op_runs'[t] = 1]_vars

C11_Witness ==
    \E t \in Threads : \E u \in Threads \ {t} :
        /\ tpc[t] = "idle" /\ calls[t] >= 1
        /\ op_how[t] = "exception" /\ tresult[t] = "None"
        /\ tpc[u] = "idle" /\ calls[u] >= 1
        /\ op_how[u] = "timeout" /\ tresult[u] = "None"
        /\ ~ser_lock

\* C12: a call of run_async that began while another request was marked
\* active has taken its delay branch by the time its operation executes.
C12_OverlapTakesDelay ==
    \A t \in Threads : (tpc[t] = "running" /\ overlapped[t]) => delayed[t]

\* the links of a list of records
links_of(out) == [k \in 1..Len(out) |-> out[k].link]

\* the file name of a record's link
filename_of(link) == Tail(link)

\* the ordered marker table of the manual type
MarkerTable ==
    << [marker |-> m_spm, type |-> "spm", title |-> "Service & Parts Manual"],
       [marker |-> m_iom, type |-> "iom", title |-> "Installation & Operation Manual"],
       [marker |-> m_pm,  type |-> "pm",  title |-> "Parts Manual"],
       [marker |-> m_wd,  type |-> "wd",  title |-> "Wiring Diagrams"],
       [marker |-> m_sm,  type |-> "sm",  title |-> "Service Manual"],
       [marker |-> m_qrg, type |-> "qrg", title |-> "Quick Reference Guide"],
       [marker |-> m_ts,  type |-> "ts",  title |-> "Tech Sheet"] >>

\* the table entries whose marker is a substring of the file name
matching(filename) ==
    {e \in 1..Len(MarkerTable) : Contains(filename, MarkerTable[e].marker)}

\* where a link occurs first in the page
first_index(doc, link) == Min({i \in 1..Len(doc) : doc[i].href = link})

\* C15: when some marker of the ordered table is a substring of the file name
\* of a manual link, the record fetch_manuals_via_curl returns for the link
\* carries the type and the fixed title of the first such table entry.
C15_FirstTableEntryWins ==
    ex_who = "curl" =>
        \A k \in 1..Len(ex_out) :
            LET hits == matching(filename_of(ex_out[k].link))
            IN  hits # {} => /\ ex_out[k].type = MarkerTable[Min(hits)].type
                             /\ ex_out[k].title = MarkerTable[Min(hits)].title

C15_Witness ==
    /\ ex_who = "curl"
    /\ Len(ex_out) = 1
    /\ filename_of(ex_out[1].link) = m_pm \o m_spm \o ext_pdf
    /\ ex_out[1].type = "spm"
    /\ ex_out[1].title = "Service & Parts Manual"

\* C16: a record of a manual extractor whose file name contains none of the
\* table markers has type 'unknown'.
C16_UnmatchedIsUnknown ==
    ex_who \in {"curl", "simple", "tab"} =>
        \A k \in 1..Len(ex_out) :
            matching(filename_of(ex_out[k].link)) = {} => ex_out[k].type = "unknown"

\* C17: fetch_manuals_via_curl, fetch_manuals_from_tab and
\* fetch_manuals_simple return links of the page, no link twice, in the
\* order in which the links first occur in the page.
C17_OneRecordPerLinkInOrder ==
    ex_who \in {"curl", "simple", "tab"} =>
        /\ \A k \in 1..Len(ex_out) : \E i \in 1..Len(ex_doc) : ex_doc[i].href = ex_out[k].link
        /\ \A a, b \in 1..Len(ex_out) :
              a < b => /\ ex_out[a].link # ex_out[b].link
                       /\ first_index(ex_doc, ex_out[a].link) < first_index(ex_doc, ex_out[b].link)

bot_challenge(signals) == "cloudflare" \in signals \/ "small" \in signals

\* C13: a request served through get_manuals / fetch_manuals_via_curl whose
\* direct download was a bot challenge or gave zero manual records has gone
\* through a rendered-browser fetch by the time its result is reported.
C13_ChallengeOrEmptyEscalates ==
    (/\ f_pc = "reported"
     /\ f_entry = "server_cached"
     /\ f_direct \in {"empty", "records"}
     /\ (bot_challenge(f_signals) \/ f_direct = "empty"))
        => f_browser

\* C14 as stated: a browser is launched only after a direct attempt of the
\* same request that failed or produced zero records, and never after a
\* direct attempt that returned records.
C14_BrowserOnlyAfterFailedDirect ==
    /\ f_browser => f_direct \in {"failed", "empty_output", "timeout", "exception", "empty"}
    /\ f_direct = "records" => ~f_browser

\* C14 amended: a browser is launched either with no direct attempt at all
\* (fetch_manuals_via_curl with PORT different from 8888,
\* PartsTownManualFetcher.get_manuals for a manufacturer without a known
\* prefix) or after a direct attempt of the same request that produced zero
\* records; a request whose direct attempt returned records never launches one.
C14_BrowserByEnvironmentOrEmptyDirect ==
    /\ f_browser =>
          \/ /\ f_direct = "none"
             /\ \/ f_entry = "server_cached" /\ f_railway
                \/ f_entry = "optimized" /\ ~f_known
          \/ f_direct = "empty"
    /\ f_direct = "records" => ~f_browser

C14_Witness ==
    /\ f_requests = 2
    /\ f_pc = "reported"
    /\ f_entry = "optimized" /\ f_known
    /\ f_direct = "empty"
    /\ f_browser
    /\ f_data # <<>>

\* C18: a list returned by fetch_models_via_curl holds no two records with
\* the same code.
C18_UniqueModelCodes ==
    (md_pc = "returned" /\ md_fn = "fetch_models_via_curl") =>
        \A a, b \in 1..Len(md_out) : a # b => md_out[a].code # md_out[b].code

\* C20: no record returned by fetch_models_via_curl or parse_models_from_html
\* is named 'Parts', 'Manuals', 'Home', 'Back' or ''.
C20_NoChromeNames ==
    md_pc = "returned" =>
        \A k \in 1..Len(md_out) : md_out[k].name \notin chrome_names \cup {<<>>}

\* the place of a strategy in the order of trial
strategy_rank(x) == CHOOSE i \in 1..Len(strategies) : strategies[i] = x

\* C21 as stated: the list fetch_models_via_curl returns holds the records
\* of one strategy only, the first one that produced a record.
C21_FirstNonEmptyStrategyOnly ==
    (md_pc = "returned" /\ md_fn = "fetch_models_via_curl") =>
        \A a, b \in 1..Len(md_src) : md_src[a] = md_src[b]

\* C21 amended: the records of the three HTML patterns are merged into one
\* list in pattern order, and records of the API endpoints are returned only
\* when no pattern produced a record.
C21_PatternsMergedApiLast ==
    (md_pc = "returned" /\ md_fn = "fetch_models_via_curl") =>
        /\ Len(md_src) = Len(md_out)
        /\ \/ \A a \in 1..Len(md_src) : md_src[a] = "api"
           \/ /\ \A a \in 1..Len(md_src) : md_src[a] # "api"
              /\ \A a, b \in 1..Len(md_src) :
                    a < b => strategy_rank(md_src[a]) <= strategy_rank(md_src[b])

C21_Witness ==
    /\ md_pc = "returned" /\ md_fn = "fetch_models_via_curl"
    /\ md_src = <<"pattern1", "pattern3">>
    /\ Len(md_out) = 2

\* the ways a fetch ends unsuccessfully
unsuccessful == {"failed", "empty_output", "timeout", "exception"}

\* C22: fetch_manuals_via_curl and fetch_models_via_curl end an unsuccessful
\* fetch (subprocess timeout, non-zero curl exit, empty output, an exception)
\* by returning an empty list, never by raising.
C22_FailureReturnsEmptyList ==
    /\ (f_pc = "reported" /\ f_entry = "server_cached" /\ f_direct \in unsuccessful)
           => (~f_raised /\ f_data = <<>>)
    /\ (md_pc = "returned" /\ md_fn = "fetch_models_via_curl" /\ md_how \in unsuccessful)
           => (~md_raised /\ md_out = <<>>)

C22_ManualsWitness ==
    /\ f_pc = "reported" /\ f_entry = "server_cached"
    /\ f_direct = "exception"
    /\ ~f_raised /\ f_data = <<>>

\* the direct fetch of the request could not be completed: curl failed, timed
\* out or raised, or the page was a bot challenge
could_not_fetch ==
    \/ f_direct \in unsuccessful
    \/ f_direct \in {"empty", "records"} /\ bot_challenge(f_signals)

\* C23: a fetch that could not be completed is reported with a value that
\* differs from the value of a fetch that succeeded with zero records.
C23_FailureDistinctFromEmpty ==
    (f_pc = "reported" /\ f_entry = "server_cached" /\ could_not_fetch) =>
        /\ f_data # curl_extract(<<>>, {}).manuals
        /\ get_manuals_response(f_data, f_raised) # get_manuals_response(<<>>, FALSE)

\* C24: a fetch that completes with zero records for a known manufacturer or
\* model is answered with a success response carrying an empty list, never
\* with an error status: server.get_models answers 200 when the scraper
\* delivered an empty list, and server_cached.get_manuals answers 200 with
\* empty data when the fetch delivered no record.
C24_ZeroRecordsAnswerSuccess ==
    /\ \A t \in Clients :
          g_pc[t] = "done" /\ g_outcome[t] = "empty"
             => g_resp[t].status = "200" /\ g_resp[t].success
    /\ f_pc = "reported" /\ f_entry = "server_cached" /\ f_data = <<>>
          => LET r == get_manuals_response(f_data, f_raised)
             IN  r.status = "200" /\ r.success /\ r.data = <<>>

\* C25: a get_models call that arrives while another call for the same
\* manufacturer is in flight issues no scraper fetch of its own.
C25_OverlappingCallIssuesNoFetch ==
    \A t \in Clients : g_overlap[t] => ~g_fetched[t]

\* the result of a download_pdf_via_curl call that runs alone
alone(kind, how) ==
    IF how = "failed" THEN download_failure("Curl failed")
    ELSE IF how = "timeout" THEN download_failure("Download timeout")
    ELSE IF kind = "pdf" THEN download_success(body_of(kind))
    ELSE download_failure("Downloaded file is not a PDF")

\* C26: overlapping download_pdf_via_curl calls for the same manual_url each
\* return the result they would return when run alone.
C26_OverlappingDownloadsIndependent ==
    \A c \in Downloads : d_pc[c] = "returned" => d_result[c] = alone(d_kind[c], d_how[c])

\* C27: get_browser hands out an existing handle only when the pruned table
\* holds max_browsers handles; with fewer handles after pruning it does not
\* wait and touches no existing handle, idle or not: the handle it returns is
\* a new one. A reused handle was idle, is marked in_use, gets last_used = now
\* and comes with a new page.
C27_ReuseOnlyAtCapacity ==
    [][\A c \in Callers :
          get_browser_step(c) =>
              LET tbl == prune(browsers, now) IN
              /\ Cardinality(DOMAIN tbl) < max_browsers =>
                    /\ pc'[c] # "sleep"
                    /\ browser_id'[c] \notin DOMAIN browsers
                    /\ \A h \in DOMAIN tbl : h \in DOMAIN browsers' /\ browsers'[h] = tbl[h]
                    /\ pc'[c] = "page" =>
                          /\ browser_id'[c] \in DOMAIN browsers'
                          /\ browsers'[browser_id'[c]].in_use
              /\ browser_id'[c] \in DOMAIN browsers =>
                    /\ Cardinality(DOMAIN tbl) = max_browsers
                    /\ ~browsers[browser_id'[c]].in_use
                    /\ browsers'[browser_id'[c]].in_use
                    /\ browsers'[browser_id'[c]].last_used = now
                    /\ pc'[c] = "page"]_vars

\* three callers were served by the two handles ever created: one of the two
\* that hold a handle took the handle the returned caller had released
C27_Witness ==
    /\ next_id = 3
    /\ last_outcome = "models"
    /\ \E a \in Callers : \E b \in Callers \ {a} : \E c \in Callers \ {a, b} :
          /\ pc[a] = "page" /\ pc[b] = "page" /\ pc[c] = "done"
          /\ browser_id[a] # browser_id[b]
          /\ {browser_id[a], browser_id[b]} \subseteq DOMAIN browsers
          /\ browsers[browser_id[a]].in_use /\ browsers[browser_id[b]].in_use
          /\ browsers[browser_id[a]].last_used = now

\* C28: the serializer lock is released only by the call that has removed
\* its request from active_requests and finished its trailing delay; while a
\* call is between the end of its operation and the end of that delay no
\* other call gets past the lock or starts its operation.
C28_LockHeldThroughSettle ==
    [][/\ (ser_lock /\ ~ser_lock') =>
             \E t \in Threads :
                 tpc[t] = "settle" /\ tpc'[t] = "idle" /\ t \notin active_requests
       /\ \A u \in Threads :
             (\/ tpc[u] = "waiting" /\ tpc'[u] = "ready"
              \/ tpc[u] = "ready" /\ tpc'[u] = "running") =>
                 \A t \in Threads \ {u} : tpc[t] \notin {"finally", "settle"}]_vars

\* a finished call sits in its trailing delay, its request removed, the lock
\* held, while another call waits for the lock
C28_Witness ==
    \E t \in Threads : \E u \in Threads \ {t} :
        /\ tpc[t] = "settle"
        /\ t \notin active_requests
        /\ ser_lock
        /\ op_runs[t] = 1
        /\ tpc[u] = "waiting"

\* C29: a get_manuals call whose key was recorded less than cache_ttl ago
\* returns the recorded list, empty or not, without probing URLs or scraping
\* and leaves the cache alone; any other call (no entry, or cache_ttl has
\* elapsed since the entry was recorded) fetches and records what it returns,
\* an empty list included, under its key with the current time.
C29_EveryResultCachedForTtl ==
    [][pt_calls' = pt_calls + 1 =>
          LET key == pt_key' IN
          IF key \in DOMAIN pt_cache /\ pt_now - pt_cache[key].timestamp < pt_ttl
             THEN /\ pt_out' = pt_cache[key].data
                  /\ ~pt_probed' /\ ~pt_scraped'
                  /\ pt_cache' = pt_cache
             ELSE /\ pt_probed' \/ pt_scraped'
                  /\ key \in DOMAIN pt_cache'
                  /\ pt_cache'[key] = [data |-> pt_out', timestamp |-> pt_now]
                  /\ \A k \in DOMAIN pt_cache \ {key} :
                        k \in DOMAIN pt_cache' /\ pt_cache'[k] = pt_cache[k]]_vars

\* the last call was served an empty list recorded at an earlier time
C29_Witness ==
    /\ pt_hit
    /\ pt_out = <<>>
    /\ pt_calls = MaxCacheCalls
    /\ pt_key \in DOMAIN pt_cache
    /\ pt_cache[pt_key].timestamp < pt_now
    /\ pt_ttl > 0

\* C30: a fetch_models_via_curl call (max_models is a positive count, 50 at
\* every call site) returns at most max_models records, whichever path
\* produced them, and the list the cache population stores
\* for an extracted list holds at most max_models_per_manufacturer records,
\* the first ones in extraction order.
C30_AtMostMaxModels ==
    /\ (md_pc = "returned" /\ md_fn = "fetch_models_via_curl") => Len(md_out) <= md_max
    /\ \A n \in 0..MaxCap :
          LET stored == populate_models(md_out, n)
          IN  Len(stored) <= n /\ stored = SubSeq(md_out, 1, Len(stored))

\* the cap ended the pattern loop of a call before the patterns were used up,
\* and the list returned is longer than a smaller cap of the population tool
C30_Witness ==
    /\ md_pc = "returned"
    /\ md_fn = "fetch_models_via_curl"
    /\ md_pattern < 3
    /\ md_max = MaxCap
    /\ Len(md_out) = md_max
    /\ Len(populate_models(md_out, 1)) < Len(md_out)

\* C31: active_requests never holds more than one entry, and it is empty
\* whenever the serializer lock is free.
C31_AtMostOneActiveRequest ==
    /\ Cardinality(active_requests) <= 1
    /\ ~ser_lock => active_requests = {}

\* one request is active and running while another thread, which saw it
\* active when it called, waits for the lock
C31_Witness ==
    \E t \in Threads : \E u \in Threads \ {t} :
        /\ active_requests = {t}
        /\ tpc[t] = "running"
        /\ tpc[u] = "waiting"
        /\ overlapped[u]

\* C32: once no get_models call for M is in flight any more, whatever the
\* calls returned, M is not in active_model_requests.
C32_FinishedRequestNotActive ==
    (\A t \in Clients : g_pc[t] \notin in_flight) => ~g_active

\* C33: when get_browser raises, every handle the table then marks in_use
\* has a caller that holds it and will release it.
C33_FailedGetLeavesNoOrphan ==
    [][\A c \in Callers :
          (get_browser_step(c) /\ pc'[c] = "done" /\ last_outcome' = "get_raised") =>
              \A h \in DOMAIN browsers' :
                  browsers'[h].in_use =>
                      \E d \in Callers : pc'[d] \in {"page", "finally"} /\ browser_id'[d] = h]_vars

\* C34: release_browser for an id that is not in the table raises nothing
\* and leaves the table as it is: the handle is not inserted again and no
\* other handle changes.
C34_ReleaseOfMissingIdIsNoOp ==
    [][\A c \in Callers :
          (release_step(c) /\ browser_id[c] \notin DOMAIN browsers) =>
              /\ browsers' = browsers
              /\ ~propagated'[c]]_vars

\* the last release found its id gone while another caller's handle, created
\* after the pruning that removed it, is in the table in use
C34_Witness ==
    /\ last_release = "missing"
    /\ \E c \in Callers : pc[c] = "done" /\ ~propagated[c]
    /\ \E h \in DOMAIN browsers : browsers[h].in_use /\ holders(h) # {}

\* C35: when fetch_manuals_via_curl's curl branch and
\* fetch_manuals_via_playwright were called on the same page, the records
\* they return for the same manual link carry the same type and title.
C35_DirectAndRenderedAgree ==
    {ex_who, ex_prev_who} = {"curl", "playwright"} =>
        \A a \in 1..Len(ex_out) : \A b \in 1..Len(ex_prev_out) :
            ex_out[a].link = ex_prev_out[b].link =>
                /\ ex_out[a].type = ex_prev_out[b].type
                /\ ex_out[a].title = ex_prev_out[b].title

\* C36: server_final and server_new serve a cached manufacturers or models entry
\* only while its age is below CACHE_DURATION; at every age of 300 s or more, a day
\* or longer included, the entry is expired and fetched again
C36_ServedOnlyWhileFresh ==
    \A s \in sf_served : s.age < CACHE_DURATION

\* C37: once the models of M are stored in scraper_cache['models'], a get_models
\* call for M that arrives after the store, within CACHE_DURATION of it and with
\* no response younger than 5 s in request_cache, issues no scraper fetch, whenever
\* /api/manufacturers was last fetched
C37_StoredModelsNeedNoFetch ==
    [][\A t \in Clients :
          (g_pc[t] = "scraper" /\ g_after[t] /\ ~cached_within(5) /\ g_now < CACHE_DURATION) =>
              g_fetched'[t] = g_fetched[t]]_vars

\* C38: parse_models_from_html returns a record for every model code that has an
\* anchor whose stripped text is non-empty and no navigational chrome, also when
\* an earlier anchor of the same code carries chrome text: each such anchor read
\* leaves a record of its code in the list the call returns
C38_EveryNamedCodeGetsRecord ==
    [][\A code \in RawCodes : \A name \in RawNames :
          (/\ parse_match(code, name)
           /\ strip(name) # <<>>
           /\ strip(name) \notin chrome_names) =>
              \E i \in 1..Len(md_models') : md_models'[i].code = code]_vars

============================================================================
